---------------------------- MODULE Spec2Model ----------------------------
(***************************************************************************)
(* Model of the WhatsApp transcript parser (parser.js): the line          *)
(* classifier, the timestamp normaliser and the transcript assembler.     *)
(*                                                                         *)
(* Strings are modelled as sequences of one-character strings.  A         *)
(* character that cannot be written in ASCII has a symbolic name:         *)
(*   "NNBSP" U+202F narrow no-break space     "TAB"  U+0009               *)
(*   "LRM" U+200E  "RLM" U+200F  "LRE" U+202A  "RLE" U+202B               *)
(*   "PDF" U+202C  "LRO" U+202D  "RLO" U+202E  "ZWSP" U+200B              *)
(*   "CR" U+000D   "LS" U+2028   "PS" U+2029                              *)
(***************************************************************************)
EXTENDS Integers, Sequences, FiniteSets

VARIABLES
    lines,           \* the transcript lines consumed so far by the for loop
    messages,        \* const messages = []
    currentMessage,  \* let currentMessage = null
    messageId,       \* let messageId = 0
    done,            \* TRUE once the loop has ended and the last message is flushed
    call,            \* arguments of the last direct call of a pure function
    ret,             \* its return value
    entries,         \* the entries of the base directory, in readdir order
    mainPc,          \* where main stands: "find", "loop" or "end"
    chatDirs,        \* const chatDirs of main
    results,         \* const results = [] of main
    outputs,         \* what the run wrote: one record for each processChat call
    pages,           \* the open viewer pages: currentFontSize and the search box
    localStorage     \* localStorage.chatFontSize of the browser, null when unset

driverVars == <<entries, mainPc, chatDirs, results, outputs>>

viewerVars == <<pages, localStorage>>

vars == <<lines, messages, currentMessage, messageId, done, call, ret,
          entries, mainPc, chatDirs, results, outputs, pages, localStorage>>

-----------------------------------------------------------------------------
(* Characters and the JavaScript string primitives the parser uses.        *)

Digits == {"0", "1", "2", "3", "4", "5", "6", "7", "8", "9"}

DigitChars == <<"0", "1", "2", "3", "4", "5", "6", "7", "8", "9">>

\* What String.prototype.trim removes and what \s matches (the members the model uses).
WhiteSpace == {" ", "TAB", "CR", "NNBSP", "LS", "PS"}

\* What the dot of a regular expression does not match.
LineTerminators == {"CR", "LS", "PS", "LF"}

\* /[\u200E\u200F\u202A-\u202E]/g
InvisibleChars == {"LRM", "RLM", "LRE", "RLE", "PDF", "LRO", "RLO"}

Null == [null |-> TRUE]

StripInvisible(s) == SelectSeq(s, LAMBDA c : c \notin InvisibleChars)

RECURSIVE TrimStart(_)
TrimStart(s) ==
    IF s # <<>> /\ Head(s) \in WhiteSpace THEN TrimStart(Tail(s)) ELSE s

RECURSIVE TrimEnd(_)
TrimEnd(s) ==
    IF s # <<>> /\ s[Len(s)] \in WhiteSpace
    THEN TrimEnd(SubSeq(s, 1, Len(s) - 1))
    ELSE s

Trim(s) == TrimEnd(TrimStart(s))

\* line.replace(/[\u200E\u200F\u202A-\u202E]/g, '').trim()
\* the two steps in the other order
SanitizeTrimFirst(line) == StripInvisible(Trim(line))

Sanitize(line) == Trim(StripInvisible(line))

DigitVal(c) == CHOOSE n \in 0..9 : DigitChars[n + 1] = c

\* Number(s) and parseInt(s) of a string of decimal digits
RECURSIVE ToNumber(_)
ToNumber(s) ==
    IF s = <<>> THEN 0
    ELSE 10 * ToNumber(SubSeq(s, 1, Len(s) - 1)) + DigitVal(s[Len(s)])

\* String(n) of a natural number
RECURSIVE NumToStr(_)
NumToStr(n) ==
    IF n < 10 THEN <<DigitChars[n + 1]>>
    ELSE NumToStr(n \div 10) \o <<DigitChars[(n % 10) + 1]>>

\* s.padStart(2, '0')
RECURSIVE PadStart2(_)
PadStart2(s) == IF Len(s) >= 2 THEN s ELSE PadStart2(<<"0">> \o s)

\* s.split(sep) for a separator that is one character of the set seps
RECURSIVE SplitOn(_, _)
SplitOn(s, seps) ==
    IF \A i \in 1..Len(s) : s[i] \notin seps THEN <<s>>
    ELSE LET i == CHOOSE j \in 1..Len(s) :
                     s[j] \in seps /\ \A h \in 1..(j - 1) : s[h] \notin seps
         IN  <<SubSeq(s, 1, i - 1)>> \o SplitOn(SubSeq(s, i + 1, Len(s)), seps)

-----------------------------------------------------------------------------
(* A small backtracking matcher for the regular expressions of parser.js. *)
(* A pattern is a sequence of items; an item matches between min and max  *)
(* characters of a class (all characters but those of the set when neg),  *)
(* greedily unless lazy, and lies inside the capture groups of the set grp.*)

Item(set, neg, min, max, many, lazy, grp) ==
    [set |-> set, neg |-> neg, min |-> min, max |-> max, many |-> many,
     lazy |-> lazy, grp |-> grp, alts |-> <<>>]

\* one literal character; one character of a set; \d{lo,hi}; X+ or X*; X+? or X*?
Ch(c, G) == Item({c}, FALSE, 1, 1, FALSE, FALSE, G)
OneOf(S, G) == Item(S, FALSE, 1, 1, FALSE, FALSE, G)
Rep(S, lo, hi, G) == Item(S, FALSE, lo, hi, FALSE, FALSE, G)
Some(S, neg, lo, G) == Item(S, neg, lo, lo, TRUE, FALSE, G)
SomeLazy(S, neg, lo, G) == Item(S, neg, lo, lo, TRUE, TRUE, G)
\* (w1|w2|...): the alternatives are tried in order
Alt(words, G) == [Item({}, FALSE, 0, 0, FALSE, FALSE, G) EXCEPT !.alts = words]

RECURSIVE Word(_, _)
Word(s, G) == IF s = <<>> THEN <<>> ELSE <<Ch(Head(s), G)>> \o Word(Tail(s), G)

Lower(c) ==
    LET up == <<"A", "B", "C", "D", "E", "F", "G", "H", "I", "J", "K", "L", "M",
                "N", "O", "P", "Q", "R", "S", "T", "U", "V", "W", "X", "Y", "Z">>
        lo == <<"a", "b", "c", "d", "e", "f", "g", "h", "i", "j", "k", "l", "m",
                "n", "o", "p", "q", "r", "s", "t", "u", "v", "w", "x", "y", "z">>
    IN  IF \E i \in 1..26 : up[i] = c
        THEN lo[CHOOSE i \in 1..26 : up[i] = c]
        ELSE c

SameChar(pat, c, d) == IF pat.icase THEN Lower(c) = Lower(d) ELSE c = d

InClass(pat, it, c) ==
    LET in == \E d \in it.set : SameChar(pat, c, d)
    IN  IF it.neg THEN ~in ELSE in

\* F(x), with x evaluated once
Once(x, F(_)) == CHOOSE r \in {F(v) : v \in {x}} : TRUE

\* how many characters from position i on the item can take at most, n of
\* them being counted already
RunLen(pat, it, s, i, n) ==
    Once(IF it.many \/ Len(s) - i + 1 < it.max THEN Len(s) - i + 1 ELSE it.max,
         LAMBDA limit :
    Once({m \in n..(limit - 1) : ~InClass(pat, it, s[i + m])},
         LAMBDA stops :
        IF stops # {} THEN CHOOSE m \in stops : \A h \in stops : m <= h
        ELSE IF limit > n THEN limit ELSE n))

\* whether the word w stands at position i of s
WordAt(pat, w, s, i) ==
    /\ i + Len(w) - 1 <= Len(s)
    /\ \A j \in 1..Len(w) : SameChar(pat, s[i + j - 1], w[j])

NoMatch == [ok |-> FALSE, at |-> 0, counts |-> <<>>]

\* an item that takes one number of characters only
FixedCount(it) == ~it.many /\ it.min = it.max /\ it.alts = <<>>

\* where item g stands when the items k..(g - 1), all of a fixed count, start at i
FixedAt(pat, k, i, g) ==
    i + Cardinality(UNION {{<<h, j>> : j \in 1..pat.items[h].min} : h \in k..(g - 1)})

RECURSIVE MatchFrom(_, _, _, _)
RECURSIVE TryCount(_, _, _, _, _)
RECURSIVE TryAlt(_, _, _, _, _)
\* the items k.. of the pattern against s from position i on
MatchFrom(pat, k, s, i) ==
    IF k > Len(pat.items)
    THEN IF pat.toEnd /\ i # Len(s) + 1 THEN NoMatch
         ELSE [ok |-> TRUE, at |-> 0, counts |-> <<>>]
    ELSE LET it == pat.items[k]
             avail == RunLen(pat, it, s, i, 0)
         IN  IF it.alts # <<>> THEN TryAlt(pat, k, s, i, 1)
             ELSE IF avail < it.min THEN NoMatch
             ELSE IF FixedCount(it)
             THEN \* items of a fixed count leave nothing to try again: the
                  \* run of them from k on is matched in one step
                  Once(CHOOSE h \in k..Len(pat.items) :
                           /\ \A g \in k..h : FixedCount(pat.items[g])
                           /\ h < Len(pat.items) => ~FixedCount(pat.items[h + 1]),
                       LAMBDA last :
                  IF \E g \in k..last :
                         RunLen(pat, pat.items[g], s, FixedAt(pat, k, i, g), 0)
                             # pat.items[g].min
                  THEN NoMatch
                  ELSE Once(MatchFrom(pat, last + 1, s, FixedAt(pat, k, i, last + 1)),
                            LAMBDA rest :
                       IF rest.ok
                       THEN [ok |-> TRUE, at |-> 0,
                             counts |-> [g \in 1..(last - k + 1) |-> pat.items[k + g - 1].min]
                                        \o rest.counts]
                       ELSE NoMatch))
             ELSE TryCount(pat, k, s, i, IF it.lazy THEN it.min ELSE avail)

\* the counts from n on in the order the item tries them, fewer and fewer
\* unless lazy: the first with which the rest of the pattern matches
TryCount(pat, k, s, i, n) ==
    LET it == pat.items[k]
        tries == IF it.lazy THEN n..RunLen(pat, it, s, i, 0) ELSE it.min..n
    IN  Once({t \in {[n |-> c, rest |-> MatchFrom(pat, k + 1, s, i + c)] : c \in tries} :
                 t.rest.ok},
             LAMBDA found :
                 IF found = {} THEN NoMatch
                 ELSE Once(CHOOSE t \in found :
                               \A u \in found : IF it.lazy THEN t.n <= u.n ELSE t.n >= u.n,
                           LAMBDA t : [ok |-> TRUE, at |-> 0,
                                       counts |-> <<t.n>> \o t.rest.counts]))

TryAlt(pat, k, s, i, j) ==
    LET alts == pat.items[k].alts
        rest == MatchFrom(pat, k + 1, s, i + Len(alts[j]))
    IN  IF j > Len(alts) THEN NoMatch
        ELSE IF WordAt(pat, alts[j], s, i) /\ rest.ok
             THEN [ok |-> TRUE, at |-> 0, counts |-> <<Len(alts[j])>> \o rest.counts]
             ELSE TryAlt(pat, k, s, i, j + 1)

\* s.match(pat) of a pattern without the g flag: the leftmost match from
\* position i on
MatchSearch(pat, s, i) ==
    Once(IF pat.fromStart THEN {i} ELSE i..(IF i > Len(s) THEN i ELSE Len(s) + 1),
         LAMBDA starts :
    Once({t \in {[at |-> j, m |-> MatchFrom(pat, 1, s, j)] : j \in starts} : t.m.ok},
         LAMBDA hits :
        IF hits = {} THEN NoMatch
        ELSE Once(CHOOSE t \in hits : \A u \in hits : t.at <= u.at,
                  LAMBDA t : [t.m EXCEPT !.at = t.at])))

Match(pat, s) == MatchSearch(pat, s, 1)

RECURSIVE CountsUpTo(_, _)
\* number of characters taken by the items 1..k
CountsUpTo(m, k) == IF k = 0 THEN 0 ELSE CountsUpTo(m, k - 1) + m.counts[k]

RECURSIVE GroupLen(_, _, _, _)
\* number of characters taken by the items 1..k of capture group g
GroupLen(pat, m, k, g) ==
    IF k = 0 THEN 0
    ELSE GroupLen(pat, m, k - 1, g)
         + (IF g \in pat.items[k].grp THEN m.counts[k] ELSE 0)

\* match[g]
Group(pat, m, s, g) ==
    LET n == Len(pat.items)
        first == CHOOSE k \in 1..n :
                    g \in pat.items[k].grp /\ \A h \in 1..(k - 1) : g \notin pat.items[h].grp
        before == CountsUpTo(m, first - 1)
        len == GroupLen(pat, m, n, g)
    IN  SubSeq(s, m.at + before, m.at + before + len - 1)

-----------------------------------------------------------------------------
(* The regular expressions and tables of parser.js.                         *)

Pattern(items, fromStart, toEnd, icase) ==
    [items |-> items, fromStart |-> fromStart, toEnd |-> toEnd, icase |-> icase]

\* (\d{1,2}\/\d{1,2}\/\d{2}) as capture group 1
DateItems ==
    <<Rep(Digits, 1, 2, {1}), Ch("/", {1}), Rep(Digits, 1, 2, {1}), Ch("/", {1}),
      Rep(Digits, 2, 2, {1})>>

\* /^\[(\d{1,2}\/\d{1,2}\/\d{2}), (\d{1,2}:\d{2}:\d{2} [AP]M)\] ([^:]+): (.*)$/
MESSAGE_START_PATTERN_1 ==
    Pattern(<<Ch("[", {})>> \o DateItems \o <<Ch(",", {}), Ch(" ", {})>>
            \o <<Rep(Digits, 1, 2, {2}), Ch(":", {2}), Rep(Digits, 2, 2, {2}),
                 Ch(":", {2}), Rep(Digits, 2, 2, {2}), Ch(" ", {2}),
                 OneOf({"A", "P"}, {2}), Ch("M", {2})>>
            \o <<Ch("]", {}), Ch(" ", {}), Some({":"}, TRUE, 1, {3}),
                 Ch(":", {}), Ch(" ", {}), Some(LineTerminators, TRUE, 0, {4})>>,
            TRUE, TRUE, FALSE)

\* (\d{1,2}:\d{2}[\s\u202F][AP]M) as capture group 2
ShortTimeItems ==
    <<Rep(Digits, 1, 2, {2}), Ch(":", {2}), Rep(Digits, 2, 2, {2}),
      OneOf(WhiteSpace \cup {"NNBSP"}, {2}), OneOf({"A", "P"}, {2}), Ch("M", {2})>>

\* /^(\d{1,2}\/\d{1,2}\/\d{2}), (\d{1,2}:\d{2}[\s\u202F][AP]M) - ([^:]+): (.*)$/
MESSAGE_START_PATTERN_2 ==
    Pattern(DateItems \o <<Ch(",", {}), Ch(" ", {})>> \o ShortTimeItems
            \o <<Ch(" ", {}), Ch("-", {}), Ch(" ", {}), Some({":"}, TRUE, 1, {3}),
                 Ch(":", {}), Ch(" ", {}), Some(LineTerminators, TRUE, 0, {4})>>,
            TRUE, TRUE, FALSE)

\* /^(\d{1,2}\/\d{1,2}\/\d{2}), (\d{1,2}:\d{2}[\s\u202F][AP]M) - (.+)$/
MESSAGE_START_PATTERN_2_SYSTEM ==
    Pattern(DateItems \o <<Ch(",", {}), Ch(" ", {})>> \o ShortTimeItems
            \o <<Ch(" ", {}), Ch("-", {}), Ch(" ", {}),
                 Some(LineTerminators, TRUE, 1, {3})>>,
            TRUE, TRUE, FALSE)

\* /<attached: (.+?)>/
MEDIA_ATTACHED_PATTERN ==
    Pattern(Word(<<"<", "a", "t", "t", "a", "c", "h", "e", "d", ":", " ">>, {})
            \o <<SomeLazy(LineTerminators, TRUE, 1, {1}), Ch(">", {})>>,
            FALSE, FALSE, FALSE)

MediaExtensions ==
    <<<<"j", "p", "g">>,
      <<"j", "p", "e", "g">>,
      <<"p", "n", "g">>,
      <<"g", "i", "f">>,
      <<"w", "e", "b", "p">>,
      <<"m", "p", "4">>,
      <<"a", "v", "i">>,
      <<"m", "o", "v">>,
      <<"m", "k", "v">>,
      <<"o", "p", "u", "s">>,
      <<"m", "p", "3">>,
      <<"o", "g", "g">>,
      <<"a", "a", "c">>,
      <<"m", "4", "a">>,
      <<"p", "d", "f">>,
      <<"d", "o", "c">>,
      <<"d", "o", "c", "x">>,
      <<"x", "l", "s">>,
      <<"x", "l", "s", "x">>>>

\* /^(.+?\.(jpg|jpeg|...|xlsx)) \(file attached\)/i
MEDIA_ATTACHED_PATTERN_2 ==
    Pattern(<<SomeLazy(LineTerminators, TRUE, 1, {1}), Ch(".", {1}),
              Alt(MediaExtensions, {1, 2})>>
            \o Word(<<" ", "(", "f", "i", "l", "e", " ", "a", "t", "t", "a", "c", "h", "e", "d", ")">>, {}),
            TRUE, FALSE, TRUE)

\* /image omitted|video omitted|audio omitted|sticker omitted|document omitted/i
MEDIA_OMITTED_PATTERN ==
    Pattern(<<Alt(<<<<"i", "m", "a", "g", "e", " ", "o", "m", "i", "t", "t", "e", "d">>,
                  <<"v", "i", "d", "e", "o", " ", "o", "m", "i", "t", "t", "e", "d">>,
                  <<"a", "u", "d", "i", "o", " ", "o", "m", "i", "t", "t", "e", "d">>,
                  <<"s", "t", "i", "c", "k", "e", "r", " ", "o", "m", "i", "t", "t", "e", "d">>,
                  <<"d", "o", "c", "u", "m", "e", "n", "t", " ", "o", "m", "i", "t", "t", "e", "d">>>>, {})>>,
            FALSE, FALSE, TRUE)

SYSTEM_MESSAGE_INDICATORS ==
    <<<<"c", "r", "e", "a", "t", "e", "d", " ", "t", "h", "i", "s", " ", "g", "r", "o", "u", "p">>,
      <<"a", "d", "d", "e", "d", " ", "y", "o", "u">>,
      <<"l", "e", "f", "t">>,
      <<"r", "e", "m", "o", "v", "e", "d">>,
      <<"c", "h", "a", "n", "g", "e", "d", " ", "t", "h", "e", " ", "s", "u", "b", "j", "e", "c", "t">>,
      <<"c", "h", "a", "n", "g", "e", "d", " ", "t", "h", "i", "s", " ", "g", "r", "o", "u", "p", "'", "s", " ", "i", "c", "o", "n">>,
      <<"M", "e", "s", "s", "a", "g", "e", "s", " ", "a", "n", "d", " ", "c", "a", "l", "l", "s", " ", "a", "r", "e", " ", "e", "n", "d", "-", "t", "o", "-", "e", "n", "d", " ", "e", "n", "c", "r", "y", "p", "t", "e", "d">>>>

-----------------------------------------------------------------------------
(* parseDateTime                                                            *)

\* the single-dialect rule: const [day, month, year] = dateStr.split('/')
ResolveDayMonthDayFirst(parts, formatType) ==
    [day |-> parts[1], month |-> parts[2]]

\* let day, month; if (first > 12) ... else if (second > 12) ... else ...
ResolveDayMonth(parts, formatType) ==
    LET first == ToNumber(parts[1])
        second == ToNumber(parts[2])
    IN  IF first > 12 THEN [day |-> parts[1], month |-> parts[2]]
        ELSE IF second > 12 THEN [month |-> parts[1], day |-> parts[2]]
        ELSE IF formatType = 2 THEN [month |-> parts[1], day |-> parts[2]]
        ELSE [day |-> parts[1], month |-> parts[2]]

\* the default taken from the wrong index: timeParts[1] || 0
SecondsOfWrongIndex(timeParts) ==
    IF Len(timeParts) >= 2 /\ timeParts[2] # 0 THEN timeParts[2] ELSE 0

\* let seconds = timeParts[2] || 0
SecondsOf(timeParts) ==
    IF Len(timeParts) >= 3 /\ timeParts[3] # 0 THEN timeParts[3] ELSE 0

\* the conversion without the two tests for 12
To24HourNaive(hours, period) ==
    IF period = <<"P", "M">> THEN hours + 12 ELSE hours

\* if (period === 'PM' && hours !== 12) hours += 12;
\* else if (period === 'AM' && hours === 12) hours = 0;
To24Hour(hours, period) ==
    IF period = <<"P", "M">> /\ hours # 12 THEN hours + 12
    ELSE IF period = <<"A", "M">> /\ hours = 12 THEN 0
    ELSE hours

parseDateTime(dateStr, timeStr, formatType) ==
    LET parts == SplitOn(dateStr, {"/"})
        year == parts[3]
        fullYear == <<"2", "0">> \o year
        dm == ResolveDayMonth(parts, formatType)
        tp == SplitOn(timeStr, WhiteSpace \cup {"NNBSP"})
        time == tp[1]
        period == tp[2]
        strs == SplitOn(time, {":"})
        timeParts == [i \in 1..Len(strs) |-> ToNumber(strs[i])]
        hours == To24Hour(timeParts[1], period)
        minutes == timeParts[2]
        seconds == SecondsOf(timeParts)
    IN  fullYear \o <<"-">> \o PadStart2(dm.month) \o <<"-">> \o PadStart2(dm.day)
        \o <<"T">> \o PadStart2(NumToStr(hours)) \o <<":">>
        \o PadStart2(NumToStr(minutes)) \o <<":">> \o PadStart2(NumToStr(seconds))

-----------------------------------------------------------------------------
(* analyzeMessage                                                           *)

\* s.includes(w)
Includes(s, w) ==
    \E i \in 1..(Len(s) + 1) :
        /\ i + Len(w) - 1 <= Len(s)
        /\ SubSeq(s, i, i + Len(w) - 1) = w

ToLowerCase(s) == [i \in 1..Len(s) |-> Lower(s[i])]

isSystemMessage(content) ==
    \E k \in 1..Len(SYSTEM_MESSAGE_INDICATORS) :
        Includes(content, SYSTEM_MESSAGE_INDICATORS[k])

\* the chain with one kind misspelt
MediaTypeOfTypo(ext) ==
    IF ext \in {<<"j", "p", "g">>, <<"j", "p", "e", "g">>, <<"p", "n", "g">>, <<"g", "i", "f">>, <<"w", "e", "b", "p">>}
    THEN "photo"
    ELSE IF ext \in {<<"m", "p", "4">>, <<"a", "v", "i">>, <<"m", "o", "v">>, <<"m", "k", "v">>}
    THEN "video"
    ELSE IF ext \in {<<"o", "p", "u", "s">>, <<"m", "p", "3">>, <<"o", "g", "g">>, <<"a", "a", "c">>, <<"m", "4", "a">>}
    THEN "audio"
    ELSE "document"

\* the if / else if chain over the extension lists
MediaTypeOf(ext) ==
    IF ext \in {<<"j", "p", "g">>, <<"j", "p", "e", "g">>, <<"p", "n", "g">>, <<"g", "i", "f">>, <<"w", "e", "b", "p">>}
    THEN "image"
    ELSE IF ext \in {<<"m", "p", "4">>, <<"a", "v", "i">>, <<"m", "o", "v">>, <<"m", "k", "v">>}
    THEN "video"
    ELSE IF ext \in {<<"o", "p", "u", "s">>, <<"m", "p", "3">>, <<"o", "g", "g">>, <<"a", "a", "c">>, <<"m", "4", "a">>}
    THEN "audio"
    ELSE "document"

\* the extension taken without toLowerCase()
LastExtensionCaseSensitive(filename) ==
    LET ps == SplitOn(filename, {"."}) IN ps[Len(ps)]

\* filename.split('.').pop().toLowerCase()
LastExtension(filename) ==
    LET ps == SplitOn(filename, {"."}) IN ToLowerCase(ps[Len(ps)])

\* the same tests with the omission test moved before the attachment tests
analyzeMessageOmittedFirst(content) ==
    LET attachedMatch == Match(MEDIA_ATTACHED_PATTERN, content)
        attachedMatch2 == Match(MEDIA_ATTACHED_PATTERN_2, content)
    IN  IF Match(MEDIA_OMITTED_PATTERN, content).ok
        THEN [type |-> "media_omitted", media |-> Null]
        ELSE IF attachedMatch.ok
        THEN LET filename == Group(MEDIA_ATTACHED_PATTERN, attachedMatch, content, 1)
             IN  [type |-> "media",
                  media |-> [filename |-> filename,
                             mediaType |-> MediaTypeOf(LastExtension(filename))]]
        ELSE IF attachedMatch2.ok
        THEN LET filename == Group(MEDIA_ATTACHED_PATTERN_2, attachedMatch2, content, 1)
                 ext == ToLowerCase(
                            Group(MEDIA_ATTACHED_PATTERN_2, attachedMatch2, content, 2))
             IN  [type |-> "media",
                  media |-> [filename |-> filename, mediaType |-> MediaTypeOf(ext)]]
        ELSE IF isSystemMessage(content)
        THEN [type |-> "system", media |-> Null]
        ELSE [type |-> "text", media |-> Null]

analyzeMessage(content) ==
    LET attachedMatch == Match(MEDIA_ATTACHED_PATTERN, content)
        attachedMatch2 == Match(MEDIA_ATTACHED_PATTERN_2, content)
    IN  IF attachedMatch.ok
        THEN LET filename == Group(MEDIA_ATTACHED_PATTERN, attachedMatch, content, 1)
             IN  [type |-> "media",
                  media |-> [filename |-> filename,
                             mediaType |-> MediaTypeOf(LastExtension(filename))]]
        ELSE IF attachedMatch2.ok
        THEN LET filename == Group(MEDIA_ATTACHED_PATTERN_2, attachedMatch2, content, 1)
                 ext == ToLowerCase(
                            Group(MEDIA_ATTACHED_PATTERN_2, attachedMatch2, content, 2))
             IN  [type |-> "media",
                  media |-> [filename |-> filename, mediaType |-> MediaTypeOf(ext)]]
        ELSE IF Match(MEDIA_OMITTED_PATTERN, content).ok
        THEN [type |-> "media_omitted", media |-> Null]
        ELSE IF isSystemMessage(content)
        THEN [type |-> "system", media |-> Null]
        ELSE [type |-> "text", media |-> Null]

-----------------------------------------------------------------------------
(* parseChatFile: the body of the for loop and the final flush.             *)

\* const [, dateStr, timeStr, sender, messageContent] = match, or for the
\* system pattern const [, dateStr, timeStr, messageContent] = match
StartOf(pat, m, line, isSys, fmt) ==
    [match |-> TRUE, isSystemMessage |-> isSys, formatType |-> fmt,
     dateStr |-> Group(pat, m, line, 1),
     timeStr |-> Group(pat, m, line, 2),
     sender |-> IF isSys THEN <<>> ELSE Group(pat, m, line, 3),
     messageContent |-> Group(pat, m, line, IF isSys THEN 3 ELSE 4)]

NoStart ==
    [match |-> FALSE, isSystemMessage |-> FALSE, formatType |-> 1,
     dateStr |-> <<>>, timeStr |-> <<>>, sender |-> <<>>, messageContent |-> <<>>]

\* the same matches with the system pattern tried before the sender-bearing one
ClassifySystemFirst(line) ==
    LET m1 == Match(MESSAGE_START_PATTERN_1, line)
        m2 == Match(MESSAGE_START_PATTERN_2, line)
        m3 == Match(MESSAGE_START_PATTERN_2_SYSTEM, line)
    IN  IF m1.ok THEN StartOf(MESSAGE_START_PATTERN_1, m1, line, FALSE, 1)
        ELSE IF m3.ok THEN StartOf(MESSAGE_START_PATTERN_2_SYSTEM, m3, line, TRUE, 2)
        ELSE IF m2.ok THEN StartOf(MESSAGE_START_PATTERN_2, m2, line, FALSE, 2)
        ELSE NoStart

\* the three line.match calls, in the order the loop tries them
Classify(line) ==
    LET m1 == Match(MESSAGE_START_PATTERN_1, line)
        m2 == Match(MESSAGE_START_PATTERN_2, line)
        m3 == Match(MESSAGE_START_PATTERN_2_SYSTEM, line)
    IN  IF m1.ok THEN StartOf(MESSAGE_START_PATTERN_1, m1, line, FALSE, 1)
        ELSE IF m2.ok THEN StartOf(MESSAGE_START_PATTERN_2, m2, line, FALSE, 2)
        ELSE IF m3.ok THEN StartOf(MESSAGE_START_PATTERN_2_SYSTEM, m3, line, TRUE, 2)
        ELSE NoStart

\* the id with a post-increment, `msg_${messageId++}`
MakeIdPostIncrement(n) == <<"m", "s", "g", "_">> \o NumToStr(n - 1)

\* `msg_${++messageId}`, given the incremented counter
MakeId(n) == <<"m", "s", "g", "_">> \o NumToStr(n)

\* the record of a start line with the analysis run for the system form too
NewMessageAnalyseAll(c, id) ==
    LET timestamp == parseDateTime(c.dateStr, c.timeStr, c.formatType)
        analysis == analyzeMessage(c.messageContent)
    IN  [id |-> MakeId(id), timestamp |-> timestamp,
         sender |-> IF c.isSystemMessage THEN <<"S", "y", "s", "t", "e", "m">> ELSE Trim(c.sender),
         content |-> Trim(c.messageContent),
         type |-> analysis.type, media |-> analysis.media]

\* the record a matched start line opens
NewMessage(c, id) ==
    LET timestamp == parseDateTime(c.dateStr, c.timeStr, c.formatType)
    IN  IF c.isSystemMessage
        THEN [id |-> MakeId(id), timestamp |-> timestamp, sender |-> <<"S", "y", "s", "t", "e", "m">>,
              content |-> Trim(c.messageContent), type |-> "system", media |-> Null]
        ELSE LET analysis == analyzeMessage(c.messageContent)
             IN  [id |-> MakeId(id), timestamp |-> timestamp,
                  sender |-> Trim(c.sender), content |-> Trim(c.messageContent),
                  type |-> analysis.type, media |-> analysis.media]

\* messages.unshift(currentMessage) in place of push
FlushFront(msgs, cur) == IF cur # Null THEN <<cur>> \o msgs ELSE msgs

\* messages.push(currentMessage) when a message is open
Flush(msgs, cur) == IF cur # Null THEN Append(msgs, cur) ELSE msgs

\* the continuation joined without the line break
AppendLineNoBreak(cur, line) == [cur EXCEPT !.content = @ \o line]

\* the continuation that classifies the grown content again
AppendLineReanalyse(cur, line) ==
    LET content == cur.content \o <<"LF">> \o line
        analysis == analyzeMessage(content)
    IN  [cur EXCEPT !.content = content, !.type = analysis.type,
                    !.media = analysis.media]

\* currentMessage.content += '\n' + line
AppendLine(cur, line) == [cur EXCEPT !.content = @ \o <<"LF">> \o line]

\* the continuation branch without its guard: an orphan line opens a record
ContinueOrphan(cur, line) ==
    IF cur # Null THEN [cur EXCEPT !.content = @ \o <<"LF">> \o line]
    ELSE [id |-> <<>>, timestamp |-> <<>>, sender |-> <<>>, content |-> line,
          type |-> "text", media |-> Null]

\* else if (currentMessage) { currentMessage.content += '\n' + line; }
Continue(cur, line) == IF cur # Null THEN AppendLine(cur, line) ELSE cur

\* the loop body after the blank-line check, on the sanitised line
HandleLine(st, line) ==
    LET c == Classify(line)
    IN  IF c.match
        THEN [messages |-> Flush(st.messages, st.currentMessage),
              currentMessage |-> NewMessage(c, st.messageId + 1),
              messageId |-> st.messageId + 1]
        ELSE [st EXCEPT !.currentMessage = Continue(st.currentMessage, line)]

\* the loop body without `if (!line) continue`
LoopBodyNoSkip(st, raw) == HandleLine(st, Sanitize(raw))

\* one iteration of `for (let line of lines)`, on the state st
LoopBody(st, raw) ==
    LET line == Sanitize(raw)
    IN  IF line = <<>> THEN st ELSE HandleLine(st, line)

\* the state before the loop
LoopInit == [messages |-> <<>>, currentMessage |-> Null, messageId |-> 0]

\* the return without the last push
LoopEndNoFlush(st) == st.messages

\* after the loop: if (currentMessage) messages.push(currentMessage); return messages
LoopEnd(st) == Flush(st.messages, st.currentMessage)

-----------------------------------------------------------------------------
(* The script of the generated viewer page (htmlGenerator.js): font size    *)
(* and search box.  A value v is a page together with the localStorage it   *)
(* shares with the other pages.                                             *)

\* const minFontSize = 12
minFontSize == 12

\* const maxFontSize = 24
maxFontSize == 24

\* the viewer pages open in the browser
Tabs == {"tab1", "tab2"}

\* the page whose search box is used
SearchTabs == {"tab1"}

\* the page after its script has run: let currentFontSize = 15, the search
\* container without the class active, let searchMatches = [], let
\* currentMatchIndex = -1, the input and the info span empty, DOMContentLoaded
\* not yet fired.  searchMatches holds the text of each mark; stuck says that
\* the script is inside a loop that does not end.
NewPage ==
    [currentFontSize |-> 15, searchActive |-> FALSE, loaded |-> FALSE,
     searchInput |-> <<>>, searchInfo |-> <<>>, searchMatches |-> <<>>,
     currentMatchIndex |-> -1, stuck |-> FALSE]

increaseFont(v) ==
    IF v.page.currentFontSize < maxFontSize
    THEN [page |-> [v.page EXCEPT !.currentFontSize = @ + 2],
          storage |-> NumToStr(v.page.currentFontSize + 2)]
    ELSE v

decreaseFont(v) ==
    IF v.page.currentFontSize > minFontSize
    THEN [page |-> [v.page EXCEPT !.currentFontSize = @ - 2],
          storage |-> NumToStr(v.page.currentFontSize - 2)]
    ELSE v

\* the text nodes of the elements of class content of the page, element by
\* element: linkifyText and the <br> of a line break split the text of a
\* message into several nodes.  Marks are replaced by their text and the
\* nodes joined again (normalize) before every search, so that a search
\* always meets these nodes.
ContentElements ==
    << << <<"H", "e", "l", "l", "o", " ", "h", "e", "l", "l", "o">> >>,
       << <<"s", "e", "e", " ">>, <<"w", "w", "w", ".", "a", ".", "i", "o">>, <<" ", "C", ":", "\\", "x">> >>,
       << <<"a">>, <<"b">> >> >>

RECURSIVE textContent(_)
\* element.textContent
textContent(nodes) ==
    IF nodes = <<>> THEN <<>> ELSE Head(nodes) \o textContent(Tail(nodes))

\* searchMatches = []; currentMatchIndex = -1, keeping the index
clearSearchHighlightsKeepIndex(v) == [v EXCEPT !.page.searchMatches = <<>>]

\* the marks give way to their text; searchMatches = []; currentMatchIndex = -1
clearSearchHighlights(v) ==
    [v EXCEPT !.page.searchMatches = <<>>, !.page.currentMatchIndex = -1]

closeSearch(v) ==
    [clearSearchHighlights(v) EXCEPT !.page.searchActive = FALSE,
                                     !.page.searchInput = <<>>,
                                     !.page.searchInfo = <<>>]

toggleSearch(v) ==
    IF v.page.searchActive THEN closeSearch(v)
    ELSE [v EXCEPT !.page.searchActive = TRUE]

\* const specialChars = ['.', '*', '+', '?', '^', '$', '{', '}', '(', ')',
\*                       '|', '[', ']', '\\'] as the page carries it
specialChars ==
    <<".", "*", "+", "?", "^", "$", "{", "}", "(", ")", "|", "[", "]", "\\">>

RECURSIVE SplitJoin(_, _)
\* s.split(char).join('\\' + char)
SplitJoin(s, char) ==
    IF s = <<>> THEN <<>>
    ELSE (IF Head(s) = char THEN <<"\\", char>> ELSE <<Head(s)>>)
         \o SplitJoin(Tail(s), char)

RECURSIVE EscapeFrom(_, _)
\* specialChars.forEach(char => { escapedQuery = ... }), from the k-th on
EscapeFrom(escapedQuery, k) ==
    IF k > Len(specialChars) THEN escapedQuery
    ELSE EscapeFrom(SplitJoin(escapedQuery, specialChars[k]), k + 1)

\* the characters a query of the model is made of: letters, digits and
\* punctuation taken literally by RegExp, and these special characters
Quantifiers == {"*", "+", "?"}

RECURSIVE Depth(_, _, _)
\* the parentheses still open after source[p..], -1 once one closes too many
Depth(source, p, open) ==
    IF open < 0 \/ p > Len(source) THEN open
    ELSE IF source[p] = "\\" THEN Depth(source, p + 2, open)
    ELSE IF source[p] = "(" THEN Depth(source, p + 1, open + 1)
    ELSE IF source[p] = ")" THEN Depth(source, p + 1, open - 1)
    ELSE Depth(source, p + 1, open)

RECURSIVE RegExpItems(_, _)
\* the items of new RegExp(source): \c is the character c, . any character
\* but a line terminator, X* X+ X? repeat the item before, ( and ) group
RegExpItems(source, p) ==
    IF p > Len(source) THEN <<>>
    ELSE IF source[p] \in {"(", ")"} THEN RegExpItems(source, p + 1)
    ELSE LET atom == IF source[p] = "\\" THEN Ch(source[p + 1], {1})
                     ELSE IF source[p] = "." THEN Item(LineTerminators, TRUE, 1, 1, FALSE, FALSE, {1})
                     ELSE Ch(source[p], {1})
             q == IF source[p] = "\\" THEN p + 2 ELSE p + 1
         IN  IF q <= Len(source) /\ source[q] \in Quantifiers
             THEN << IF source[q] = "*" THEN Some(atom.set, atom.neg, 0, {1})
                     ELSE IF source[q] = "+" THEN Some(atom.set, atom.neg, 1, {1})
                     ELSE Item(atom.set, atom.neg, 0, 1, FALSE, FALSE, {1}) >>
                  \o RegExpItems(source, q + 1)
             ELSE <<atom>> \o RegExpItems(source, q)

\* new RegExp('(' + escapedQuery + ')', 'gi'); SyntaxError for a group left
\* open or closed twice
NewRegExp(escapedQuery) ==
    LET source == <<"(">> \o escapedQuery \o <<")">>
    IN  IF Depth(source, 1, 0) # 0 THEN [error |-> TRUE, pattern |-> Pattern(<<>>, FALSE, FALSE, TRUE)]
        ELSE [error |-> FALSE, pattern |-> Pattern(RegExpItems(source, 1), FALSE, FALSE, TRUE)]

\* regex.test(text) with lastIndex = 0
Test(regex, text) == Match(regex, text).ok

RECURSIVE ExecLoop(_, _, _)
\* while ((match = regex.exec(text)) !== null) from lastIndex on: the marks
\* made; exec leaves lastIndex where an empty match stands, and the loop
\* then meets the same match for ever
ExecLoop(regex, text, lastIndex) ==
    Once(MatchSearch(regex, text, lastIndex + 1), LAMBDA match :
        IF ~match.ok THEN [marks |-> <<>>, ends |-> TRUE]
        ELSE Once(CountsUpTo(match, Len(match.counts)), LAMBDA length :
             IF length = 0 THEN [marks |-> <<>>, ends |-> FALSE]
             ELSE Once(ExecLoop(regex, text, match.at - 1 + length), LAMBDA rest :
                  [marks |-> <<SubSeq(text, match.at, match.at + length - 1)>> \o rest.marks,
                   ends |-> rest.ends])))

RECURSIVE MarkNodes(_, _)
\* nodesToReplace.forEach(...) over the text nodes that the pattern meets
MarkNodes(regex, nodes) ==
    IF nodes = <<>> THEN [marks |-> <<>>, ends |-> TRUE]
    ELSE IF ~Test(regex, Head(nodes)) THEN MarkNodes(regex, Tail(nodes))
    ELSE Once(ExecLoop(regex, Head(nodes), 0), LAMBDA first :
         IF ~first.ends THEN first
         ELSE Once(MarkNodes(regex, Tail(nodes)), LAMBDA rest :
              [marks |-> first.marks \o rest.marks, ends |-> rest.ends]))

RECURSIVE MarkElements(_, _)
\* contentElements.forEach(...): the nodes of the elements whose textContent
\* the pattern meets
MarkElements(regex, elements) ==
    IF elements = <<>> THEN [marks |-> <<>>, ends |-> TRUE]
    ELSE IF ~Test(regex, textContent(Head(elements))) THEN MarkElements(regex, Tail(elements))
    ELSE Once(MarkNodes(regex, Head(elements)), LAMBDA first :
         IF ~first.ends THEN first
         ELSE Once(MarkElements(regex, Tail(elements)), LAMBDA rest :
              [marks |-> first.marks \o rest.marks, ends |-> rest.ends]))

\* `${currentMatchIndex + 1} / ${searchMatches.length}`
MatchInfo(page) ==
    NumToStr(page.currentMatchIndex + 1) \o <<" ", "/", " ">>
    \o NumToStr(Len(page.searchMatches))

performSearch(v) ==
    LET query == Trim(v.page.searchInput)
        cleared == clearSearchHighlights(v)
    IN  IF query = <<>> THEN [cleared EXCEPT !.page.searchInfo = <<>>]
        ELSE Once(NewRegExp(EscapeFrom(query, 1)), LAMBDA regex :
             \* the SyntaxError ends the handler after the highlights are cleared
             IF regex.error THEN cleared
             ELSE Once(MarkElements(regex.pattern, ContentElements), LAMBDA found :
                  IF ~found.ends THEN [cleared EXCEPT !.page.stuck = TRUE]
                  ELSE IF Len(found.marks) > 0
                  THEN [cleared EXCEPT !.page.searchMatches = found.marks,
                                       !.page.currentMatchIndex = 0,
                                       !.page.searchInfo =
                                           <<"1", " ", "/", " ">> \o NumToStr(Len(found.marks))]
                  ELSE [cleared EXCEPT !.page.searchInfo = <<"N", "o", " ", "r", "e", "s", "u", "l", "t", "s">>]))

\* searchNext without the remainder
searchNextNoWrap(v) ==
    IF Len(v.page.searchMatches) = 0 THEN v
    ELSE LET moved == [v.page EXCEPT !.currentMatchIndex = @ + 1]
         IN  [v EXCEPT !.page = [moved EXCEPT !.searchInfo = MatchInfo(moved)]]

searchNext(v) ==
    IF Len(v.page.searchMatches) = 0 THEN v
    ELSE LET moved == [v.page EXCEPT !.currentMatchIndex =
                           (@ + 1) % Len(v.page.searchMatches)]
         IN  [v EXCEPT !.page = [moved EXCEPT !.searchInfo = MatchInfo(moved)]]

searchPrev(v) ==
    IF Len(v.page.searchMatches) = 0 THEN v
    ELSE LET moved == [v.page EXCEPT !.currentMatchIndex =
                           (@ - 1 + Len(v.page.searchMatches)) % Len(v.page.searchMatches)]
         IN  [v EXCEPT !.page = [moved EXCEPT !.searchInfo = MatchInfo(moved)]]

\* the input listener of the search box, the box holding value
onInput(v, value) == performSearch([v EXCEPT !.page.searchInput = value])

\* the keydown listener of the search box
onSearchKeyDown(v, e) ==
    IF e.key = "Enter" THEN (IF e.shiftKey THEN searchPrev(v) ELSE searchNext(v))
    ELSE IF e.key = "Escape" THEN closeSearch(v)
    ELSE v

\* the keydown listener of the document
onKeyDown(v, e) ==
    LET v1 == IF (e.ctrlKey \/ e.metaKey) /\ e.key \in {"+", "="}
              THEN increaseFont(v) ELSE v
        v2 == IF (e.ctrlKey \/ e.metaKey) /\ e.key = "-"
              THEN decreaseFont(v1) ELSE v1
    IN  IF (e.ctrlKey \/ e.metaKey) /\ e.key = "f" THEN toggleSearch(v2) ELSE v2

\* the DOMContentLoaded listener: the saved font size is restored
onDOMContentLoaded(v) ==
    LET savedFontSize == v.storage
        restored == IF savedFontSize # Null /\ savedFontSize # <<>>
                    THEN [v.page EXCEPT !.currentFontSize = ToNumber(savedFontSize)]
                    ELSE v.page
    IN  [v EXCEPT !.page = [restored EXCEPT !.loaded = TRUE]]

-----------------------------------------------------------------------------
(* The transcripts and the direct calls the model explores.                 *)

MaxLines == 3

LinePool ==
    {
      \* Dialect A, ambiguous date
      <<"[", "0", "1", "/", "0", "2", "/", "2", "5", ",", " ", "1", "1", ":", "5", "2", ":", "4", "6", " ", "A", "M", "]", " ", "A", "l", "i", "c", "e", ":", " ", "H", "e", "l", "l", "o">>,
      \* Dialect A, day first, an earlier date
      <<"[", "1", "3", "/", "0", "1", "/", "2", "5", ",", " ", "1", "2", ":", "5", "3", ":", "0", "0", " ", "P", "M", "]", " ", "B", "o", "b", ":", " ", "<", "a", "t", "t", "a", "c", "h", "e", "d", ":", " ", "p", "i", "c", ".", "j", "p", "g", ">">>,
      \* Dialect B with U+202F
      <<"1", "/", "2", "/", "2", "5", ",", " ", "1", "2", ":", "5", "2", "NNBSP", "A", "M", " ", "-", " ", "B", "o", "b", ":", " ", " ", "h", "i">>,
      \* Dialect B, system form
      <<"1", "/", "1", "3", "/", "2", "6", ",", " ", "1", ":", "0", "5", " ", "P", "M", " ", "-", " ", "A", "l", "i", "c", "e", " ", "l", "e", "f", "t">>,
      \* a continuation line
      <<"t", "h", "e", "r", "e">>,
      \* a continuation line to be sanitised
      <<" ", " ", "LRM", "i", "m", "a", "g", "e", " ", "o", "m", "i", "t", "t", "e", "d", " ">>,
      \* an empty line
      <<>>,
      \* a line that is blank once sanitised
      <<" ", "LRM">>,
      \* Dialect A written with U+202F
      <<"[", "1", "3", "/", "0", "1", "/", "2", "5", ",", " ", "1", "1", ":", "5", "2", ":", "4", "6", "NNBSP", "A", "M", "]", " ", "A", "l", "i", "c", "e", ":", " ", "H", "e", "l", "l", "o">> }

State == [messages |-> messages, currentMessage |-> currentMessage,
          messageId |-> messageId]

Init ==
    /\ lines = <<>>
    /\ messages = LoopInit.messages
    /\ currentMessage = LoopInit.currentMessage
    /\ messageId = LoopInit.messageId
    /\ done = FALSE
    /\ call = Null
    /\ ret = Null
    /\ entries = <<>>
    /\ mainPc = "find"
    /\ chatDirs = <<>>
    /\ results = <<>>
    /\ outputs = <<>>
    /\ pages = [t \in Tabs |-> NewPage]
    /\ localStorage = Null

\* the for loop takes the next line of the transcript
ReadLine(raw) ==
    /\ ~done
    /\ Len(lines) < MaxLines
    /\ lines' = Append(lines, raw)
    /\ LET st == LoopBody(State, raw)
       IN  /\ messages' = st.messages
           /\ currentMessage' = st.currentMessage
           /\ messageId' = st.messageId
    /\ UNCHANGED <<done, call, ret>>
    /\ UNCHANGED <<driverVars, viewerVars>>

\* the transcript ends: the open message is pushed and messages returned
EndOfInput ==
    /\ ~done
    /\ messages' = LoopEnd(State)
    /\ done' = TRUE
    /\ UNCHANGED <<lines, currentMessage, messageId, call, ret>>
    /\ UNCHANGED <<driverVars, viewerVars>>

Next ==
    \/ \E raw \in LinePool : ReadLine(raw)
    \/ EndOfInput

Spec == Init /\ [][Next]_vars

-----------------------------------------------------------------------------
(* Direct calls of parseDateTime, on the token shapes the start patterns  *)
(* let through: one or two digits per date field, a two-digit year, one   *)
(* or two digits of hour, two of minute, optional seconds, a separator    *)
(* and AM or PM.                                                           *)

MaxDateField == 13
MaxHour == 13

Render(n, pad) == IF pad THEN PadStart2(NumToStr(n)) ELSE NumToStr(n)

DateInputs == [a : 0..MaxDateField, b : 0..MaxDateField, yy : {0, 25, 99}, pad : BOOLEAN]

TimeInputs ==
    { t \in [h : 0..MaxHour, hpad : BOOLEAN, m : {0, 59}, hasSec : BOOLEAN,
             s : {0, 7, 46}, sep : {" ", "NNBSP"}, period : {"AM", "PM"}] :
        ~t.hasSec => t.s = 0 }

DateToken(d) ==
    Render(d.a, d.pad) \o <<"/">> \o Render(d.b, d.pad) \o <<"/">> \o Render(d.yy, TRUE)

TimeToken(t) ==
    Render(t.h, t.hpad) \o <<":">> \o Render(t.m, TRUE)
    \o (IF t.hasSec THEN <<":">> \o Render(t.s, TRUE) ELSE <<>>)
    \o <<t.sep>> \o (IF t.period = "AM" THEN <<"A", "M">> ELSE <<"P", "M">>)

\* every date is tried with two times, and every time with two dates
FewDates == {d \in DateInputs : d.a \in {1, 13} /\ d.b = 2 /\ d.yy = 25 /\ d.pad}
FewTimes == {t \in TimeInputs : t.h = 11 /\ ~t.hpad /\ t.m = 59 /\ t.hasSec
                                  /\ t.s = 46 /\ t.sep = " "}

CallParseDateTime(d, t, f) ==
    /\ call = Null
    /\ call' = [fn |-> "parseDateTime", d |-> d, t |-> t, formatType |-> f,
                dateStr |-> DateToken(d), timeStr |-> TimeToken(t)]
    /\ ret' = parseDateTime(DateToken(d), TimeToken(t), f)
    /\ UNCHANGED <<lines, messages, currentMessage, messageId, done>>
    /\ UNCHANGED <<driverVars, viewerVars>>

NextDT ==
    /\ call = Null
    /\ \E f \in {1, 2} :
          \/ \E d \in DateInputs, t \in FewTimes : CallParseDateTime(d, t, f)
          \/ \E d \in FewDates, t \in TimeInputs : CallParseDateTime(d, t, f)

SpecDT == Init /\ [][NextDT]_vars

-----------------------------------------------------------------------------
(* Vocabulary of the properties.                                            *)

\* whether the raw line, once sanitised, matches one of the three start patterns
IsStart(raw) ==
    LET line == Sanitize(raw)
    IN  \/ Match(MESSAGE_START_PATTERN_1, line).ok
        \/ Match(MESSAGE_START_PATTERN_2, line).ok
        \/ Match(MESSAGE_START_PATTERN_2_SYSTEM, line).ok

IsBlank(raw) == Sanitize(raw) = <<>>

StartIndices(ls) == {i \in 1..Len(ls) : IsStart(ls[i])}

\* the k-th smallest index of the set S of start lines
NthStart(S, k) == CHOOSE i \in S : Cardinality({j \in S : j < i}) = k - 1

\* the first index of S after i, or n + 1 when there is none
NextStartAfter(S, i, n) ==
    IF \E j \in S : j > i
    THEN CHOOSE j \in S : j > i /\ \A h \in S : h > i => j <= h
    ELSE n + 1

\* the lines i..j of ls, sanitised, the blank ones dropped, each after a line break
RECURSIVE Folded(_, _, _)
Folded(ls, i, j) ==
    IF i > j THEN <<>>
    ELSE (IF IsBlank(ls[i]) THEN <<>> ELSE <<"LF">> \o Sanitize(ls[i]))
         \o Folded(ls, i + 1, j)

\* the records opened so far, in output order: the emitted ones, then the open one
AllRecords ==
    IF done \/ currentMessage = Null THEN messages ELSE Append(messages, currentMessage)

\* the numeric fields of an ISO timestamp YYYY-MM-DDTHH:MM:SS
IsoFields(ts) ==
    LET dt == SplitOn(ts, {"T"})
        d == SplitOn(dt[1], {"-"})
        t == SplitOn(dt[2], {":"})
    IN  [year |-> ToNumber(d[1]), month |-> ToNumber(d[2]), day |-> ToNumber(d[3]),
         hour |-> ToNumber(t[1]), minute |-> ToNumber(t[2]), second |-> ToNumber(t[3])]

\* the line with every U+202F replaced by an ordinary space
Spaced(l) == [i \in 1..Len(l) |-> IF l[i] = "NNBSP" THEN " " ELSE l[i]]

HasNarrowSpace(l) == \E i \in 1..Len(l) : l[i] = "NNBSP"

-----------------------------------------------------------------------------
(* Properties of the assembler (specification Spec).                       *)

\* C1: the k-th record has id msg_k (1-based, increasing, gap-free), and the id
\* counter equals the number of start lines consumed: blank and continuation
\* lines never advance it.
C1_IdsSequential ==
    /\ \A k \in 1..Len(AllRecords) : AllRecords[k].id = <<"m", "s", "g", "_">> \o NumToStr(k)
    /\ messageId = Cardinality(StartIndices(lines))
    /\ Len(AllRecords) = messageId

C1_Witness ==
    /\ done
    /\ Len(messages) = 2
    /\ \E i \in 1..Len(lines) : ~IsStart(lines[i])

\* C2: every start line yields exactly one record, whose content is the start
\* line's trimmed body followed by each later non-blank line up to the next start
\* line (or the end), sanitised, in order, each preceded by one line break.
C2_ContinuationFolding ==
    LET S == StartIndices(lines)
    IN  /\ Len(AllRecords) = Cardinality(S)
        /\ \A k \in 1..Len(AllRecords) :
              LET i == NthStart(S, k)
              IN  AllRecords[k].content =
                      Trim(Classify(Sanitize(lines[i])).messageContent)
                      \o Folded(lines, i + 1, NextStartAfter(S, i, Len(lines)) - 1)

C2_Witness ==
    /\ done
    /\ Len(lines) = 3
    /\ IsStart(lines[1]) /\ IsStart(lines[3])
    /\ ~IsStart(lines[2]) /\ ~IsBlank(lines[2]) /\ Sanitize(lines[2]) # lines[2]
    /\ Len(messages) = 2
    /\ messages[1].content # Trim(Classify(Sanitize(lines[1])).messageContent)

\* C3: the records are in transcript order: the k-th record carries the timestamp
\* and sender of the k-th start line, whatever the order of the timestamps.
C3_OrderPreserved ==
    LET S == StartIndices(lines)
    IN  \A k \in 1..Len(AllRecords) :
            LET c == Classify(Sanitize(lines[NthStart(S, k)]))
            IN  /\ AllRecords[k].timestamp =
                       parseDateTime(c.dateStr, c.timeStr, c.formatType)
                /\ AllRecords[k].sender =
                       (IF c.isSystemMessage THEN <<"S", "y", "s", "t", "e", "m">> ELSE Trim(c.sender))

\* two records whose timestamps go backwards, and two with the same timestamp
C3_Witness ==
    /\ done
    /\ Len(messages) = 3
    /\ IsoFields(messages[1].timestamp).month > IsoFields(messages[2].timestamp).month
    /\ IsoFields(messages[1].timestamp).year = IsoFields(messages[2].timestamp).year
    /\ messages[2].timestamp = messages[3].timestamp

\* C4: a line that is blank once sanitised changes neither the emitted sequence,
\* nor the open message, nor the id counter.
C4_BlankLineNoEffect ==
    [][(lines' # lines /\ IsBlank(lines'[Len(lines')]))
          => (messages' = messages /\ currentMessage' = currentMessage
              /\ messageId' = messageId)]_vars

\* a blank line of invisible characters was consumed while a message is open
C4_Witness ==
    /\ Len(lines) >= 2
    /\ IsBlank(lines[Len(lines)]) /\ lines[Len(lines)] # <<>>
    /\ currentMessage # Null
    /\ ~done

\* C5: as long as no start line has been consumed, no message is open, nothing is
\* emitted and the id counter is 0, whatever non-start lines came; the final
\* sequence is then empty.
C5_OrphanLinesDiscarded ==
    StartIndices(lines) = {}
        => (messages = <<>> /\ currentMessage = Null /\ messageId = 0)

C5_Witness ==
    /\ done
    /\ Len(lines) >= 2
    /\ StartIndices(lines) = {}
    /\ \E i \in 1..Len(lines) : ~IsBlank(lines[i])
    /\ messages = <<>>

\* C6: the first matching pattern decides. A line matching Dialect A gets Dialect
\* A's date convention; a line matching the sender-bearing Dialect B pattern keeps
\* its sender and body (it is not taken as a sender-less system start); only a
\* line matching neither is a system start.
C6_FirstPatternWins ==
    \A k \in 1..Len(AllRecords) :
        LET S == StartIndices(lines)
            line == Sanitize(lines[NthStart(S, k)])
            r == AllRecords[k]
            m1 == Match(MESSAGE_START_PATTERN_1, line)
            m2 == Match(MESSAGE_START_PATTERN_2, line)
            m3 == Match(MESSAGE_START_PATTERN_2_SYSTEM, line)
        IN  /\ m1.ok =>
                 /\ r.timestamp =
                        parseDateTime(Group(MESSAGE_START_PATTERN_1, m1, line, 1),
                                      Group(MESSAGE_START_PATTERN_1, m1, line, 2), 1)
                 /\ r.sender = Trim(Group(MESSAGE_START_PATTERN_1, m1, line, 3))
            /\ m2.ok =>
                 /\ r.sender = Trim(Group(MESSAGE_START_PATTERN_2, m2, line, 3))
                 /\ r.type = analyzeMessage(Group(MESSAGE_START_PATTERN_2, m2, line, 4)).type
                 /\ SubSeq(r.content, 1,
                           Len(Trim(Group(MESSAGE_START_PATTERN_2, m2, line, 4))))
                        = Trim(Group(MESSAGE_START_PATTERN_2, m2, line, 4))
            /\ (~m1.ok /\ ~m2.ok) =>
                 /\ m3.ok
                 /\ r.sender = <<"S", "y", "s", "t", "e", "m">>
                 /\ r.type = "system"

\* a sender-bearing Dialect B line (which the system pattern matches too), an
\* ambiguous Dialect A line and a system line have all been consumed
C6_Witness ==
    /\ Len(AllRecords) = 3
    /\ \E k \in 1..3 :
          LET line == Sanitize(lines[NthStart(StartIndices(lines), k)])
          IN  /\ Match(MESSAGE_START_PATTERN_2, line).ok
              /\ Match(MESSAGE_START_PATTERN_2_SYSTEM, line).ok
              /\ AllRecords[k].sender = <<"B", "o", "b">>
    /\ \E k \in 1..3 :
          /\ Match(MESSAGE_START_PATTERN_1,
                   Sanitize(lines[NthStart(StartIndices(lines), k)])).ok
          /\ IsoFields(AllRecords[k].timestamp).month = 2
          /\ IsoFields(AllRecords[k].timestamp).day = 1
    /\ \E k \in 1..3 : AllRecords[k].sender = <<"S", "y", "s", "t", "e", "m">>

\* C10: a start line written with U+202F between time and AM/PM is parsed exactly
\* as the same line written with an ordinary space, in both dialects.
C10_NarrowSpaceAsSpace ==
    (Len(lines) = 1 /\ HasNarrowSpace(lines[1]))
        => State = LoopBody(LoopInit, Spaced(lines[1]))

-----------------------------------------------------------------------------
(* Properties of parseDateTime (specification SpecDT).                     *)

\* C7: the year is 2000 + yy; a first field > 12 is the day; else a second field
\* > 12 is the day; else Dialect A reads day/month and Dialect B month/day.
C7_DateNormalisation ==
    call # Null =>
        LET a == call.d.a
            b == call.d.b
            f == IsoFields(ret)
            dayFirst == [day |-> a, month |-> b]
            monthFirst == [day |-> b, month |-> a]
            want == IF a > 12 THEN dayFirst
                    ELSE IF b > 12 THEN monthFirst
                    ELSE IF call.formatType = 1 THEN dayFirst
                    ELSE monthFirst
        IN  /\ f.year = 2000 + call.d.yy
            /\ f.day = want.day
            /\ f.month = want.month

\* 01/02/25 under Dialect B, read as 2 January
C7_Witness ==
    /\ call # Null
    /\ call.dateStr = <<"0", "1", "/", "0", "2", "/", "2", "5">>
    /\ call.formatType = 2
    /\ IsoFields(ret).month = 1 /\ IsoFields(ret).day = 2 /\ IsoFields(ret).year = 2025

\* C8: for h in 1..12, h AM is hour h except 12 AM which is 0, and h PM is h + 12
\* except 12 PM which is 12; minutes and seconds are unchanged.
C8_TwelveHourConversion ==
    (call # Null /\ call.t.h \in 1..12) =>
        LET h == call.t.h
            f == IsoFields(ret)
        IN  /\ f.hour = IF call.t.period = "AM"
                        THEN (IF h = 12 THEN 0 ELSE h)
                        ELSE (IF h = 12 THEN 12 ELSE h + 12)
            /\ f.minute = call.t.m
            /\ f.second = call.t.s

\* 12:59:46 AM, read as 00:59:46
C8_Witness ==
    /\ call # Null
    /\ call.t.h = 12 /\ call.t.period = "AM" /\ call.t.m = 59 /\ call.t.s = 46
    /\ IsoFields(ret).hour = 0 /\ IsoFields(ret).minute = 59

\* C9: a time token without a seconds field gives seconds 0; with one, the field's
\* value is kept.
C9_SecondsDefault ==
    call # Null =>
        IsoFields(ret).second = (IF call.t.hasSec THEN call.t.s ELSE 0)

\* 11:59 PM without seconds
C9_Witness ==
    /\ call # Null
    /\ ~call.t.hasSec /\ call.t.m = 59
    /\ Len(SplitOn(call.timeStr, {":"})) = 2
    /\ IsoFields(ret).second = 0

-----------------------------------------------------------------------------
(* Direct calls of analyzeMessage, on bodies made of a prefix, a core and   *)
(* a suffix.                                                                *)

BodyCores ==
    {
      \* plain text
      <<"H", "e", "l", "l", "o">>,
      \* attachment markers
      <<"<", "a", "t", "t", "a", "c", "h", "e", "d", ":", " ", "p", "h", "o", "t", "o", ".", "j", "p", "g", ">">>,
      <<"<", "a", "t", "t", "a", "c", "h", "e", "d", ":", " ", "a", ".", "M", "P", "4", ">">>,
      <<"<", "a", "t", "t", "a", "c", "h", "e", "d", ":", " ", "v", ".", "o", "p", "u", "s", ">">>,
      <<"<", "a", "t", "t", "a", "c", "h", "e", "d", ":", " ", "r", ".", "p", "d", "f", ">">>,
      <<"<", "a", "t", "t", "a", "c", "h", "e", "d", ":", " ", "x", ".", "z", "i", "p", ">">>,
      <<"<", "a", "t", "t", "a", "c", "h", "e", "d", ":", " ", "j", "p", "g", ">">>,
      \* a marker without a filename
      <<"<", "a", "t", "t", "a", "c", "h", "e", "d", ":", " ", ">">>,
      \* inline attachment phrases
      <<"p", "i", "c", ".", "P", "N", "G", " ", "(", "f", "i", "l", "e", " ", "a", "t", "t", "a", "c", "h", "e", "d", ")">>,
      <<"d", "o", "c", ".", "d", "o", "c", "x", " ", "(", "f", "i", "l", "e", " ", "a", "t", "t", "a", "c", "h", "e", "d", ")">>,
      <<"a", ".", "j", "p", "g", ".", "p", "d", "f", " ", "(", "f", "i", "l", "e", " ", "a", "t", "t", "a", "c", "h", "e", "d", ")">>,
      <<"x", ".", "z", "i", "p", " ", "(", "f", "i", "l", "e", " ", "a", "t", "t", "a", "c", "h", "e", "d", ")">>,
      <<".", "j", "p", "g", " ", "(", "f", "i", "l", "e", " ", "a", "t", "t", "a", "c", "h", "e", "d", ")">>,
      <<"v", ".", "m", "k", "v", " ", "(", "F", "I", "L", "E", " ", "A", "T", "T", "A", "C", "H", "E", "D", ")">>,
      \* omission placeholders
      <<"I", "M", "A", "G", "E", " ", "O", "M", "I", "T", "T", "E", "D">>,
      <<"s", "t", "i", "c", "k", "e", "r", " ", "o", "m", "i", "t", "t", "e", "d">>,
      \* system phrases
      <<"B", "o", "b", " ", "l", "e", "f", "t">>,
      <<"B", "o", "b", " ", "L", "E", "F", "T">>,
      <<"A", "n", "n", " ", "c", "h", "a", "n", "g", "e", "d", " ", "t", "h", "e", " ", "s", "u", "b", "j", "e", "c", "t">> }

BodyPrefixes == {<<>>, <<" ">>, <<"s", "e", "e", " ">>}

BodySuffixes == {<<>>, <<" ", "i", "m", "a", "g", "e", " ", "o", "m", "i", "t", "t", "e", "d">>, <<" ", "l", "e", "f", "t">>, <<" ", "<", "a", "t", "t", "a", "c", "h", "e", "d", ":", " ", "b", ".", "g", "i", "f", ">">>}

AMBodies == {p \o c \o s : p \in BodyPrefixes, c \in BodyCores, s \in BodySuffixes}

CallAnalyzeMessage(content) ==
    /\ call' = [fn |-> "analyzeMessage", content |-> content]
    /\ ret' = analyzeMessage(content)
    /\ UNCHANGED <<lines, messages, currentMessage, messageId, done>>
    /\ UNCHANGED <<driverVars, viewerVars>>

NextAM ==
    /\ call = Null
    /\ \E content \in AMBodies : CallAnalyzeMessage(content)

SpecAM == Init /\ [][NextAM]_vars

-----------------------------------------------------------------------------
(* Properties of analyzeMessage (specification SpecAM).  The body shapes   *)
(* are stated here with includes and positions, not with the matcher.      *)

\* the word w stands at position i of s, compared without regard to case
StandsAt(s, w, i) ==
    /\ i >= 1
    /\ i + Len(w) - 1 <= Len(s)
    /\ ToLowerCase(SubSeq(s, i, i + Len(w) - 1)) = ToLowerCase(w)

\* the body holds <attached: FILENAME> with a non-empty FILENAME
HasAttachedMarker(b) ==
    \E i \in 1..Len(b), j \in 1..Len(b) :
        /\ i + 10 <= Len(b)
        /\ SubSeq(b, i, i + 10) = <<"<", "a", "t", "t", "a", "c", "h", "e", "d", ":", " ">>
        /\ j > i + 11
        /\ b[j] = ">"

\* the body begins FILENAME.ext (file attached), ext one of the known extensions
HasInlinePhrase(b) ==
    \E p \in 1..Len(b), k \in 1..Len(MediaExtensions) :
        /\ p + 1 <= Len(b)
        /\ b[p + 1] = "."
        /\ StandsAt(b, MediaExtensions[k], p + 2)
        /\ StandsAt(b, <<" ", "(", "f", "i", "l", "e", " ", "a", "t", "t", "a", "c", "h", "e", "d", ")">>, p + 2 + Len(MediaExtensions[k]))

HasOmissionPhrase(b) ==
    \E w \in {<<"i", "m", "a", "g", "e", " ", "o", "m", "i", "t", "t", "e", "d">>, <<"v", "i", "d", "e", "o", " ", "o", "m", "i", "t", "t", "e", "d">>, <<"a", "u", "d", "i", "o", " ", "o", "m", "i", "t", "t", "e", "d">>,
              <<"s", "t", "i", "c", "k", "e", "r", " ", "o", "m", "i", "t", "t", "e", "d">>, <<"d", "o", "c", "u", "m", "e", "n", "t", " ", "o", "m", "i", "t", "t", "e", "d">>} :
        Includes(ToLowerCase(b), w)

HasSystemPhrase(b) ==
    \E w \in {<<"c", "r", "e", "a", "t", "e", "d", " ", "t", "h", "i", "s", " ", "g", "r", "o", "u", "p">>, <<"a", "d", "d", "e", "d", " ", "y", "o", "u">>, <<"l", "e", "f", "t">>, <<"r", "e", "m", "o", "v", "e", "d">>,
              <<"c", "h", "a", "n", "g", "e", "d", " ", "t", "h", "e", " ", "s", "u", "b", "j", "e", "c", "t">>, <<"c", "h", "a", "n", "g", "e", "d", " ", "t", "h", "i", "s", " ", "g", "r", "o", "u", "p", "'", "s", " ", "i", "c", "o", "n">>,
              <<"M", "e", "s", "s", "a", "g", "e", "s", " ", "a", "n", "d", " ", "c", "a", "l", "l", "s", " ", "a", "r", "e", " ", "e", "n", "d", "-", "t", "o", "-", "e", "n", "d", " ", "e", "n", "c", "r", "y", "p", "t", "e", "d">>} :
        Includes(b, w)

\* the type the precedence rule gives a body
TypeByPrecedence(b) ==
    IF HasAttachedMarker(b) \/ HasInlinePhrase(b) THEN "media"
    ELSE IF HasOmissionPhrase(b) THEN "media_omitted"
    ELSE IF HasSystemPhrase(b) THEN "system"
    ELSE "text"

\* C11: the type of a body is decided by first-match precedence: attachment
\* marker, inline attachment phrase, omission phrase, system phrase, else text;
\* a body with both a marker and an omission phrase is media.
C11_ClassificationPrecedence ==
    call # Null =>
        /\ ret.type = TypeByPrecedence(call.content)
        /\ ret.type \in {"text", "media", "media_omitted", "system"}

\* a body with an attachment marker and an omission phrase, classified media
C11_Witness ==
    /\ call # Null
    /\ HasAttachedMarker(call.content)
    /\ HasOmissionPhrase(call.content)
    /\ ret.type = "media"

\* the text after the last dot of the filename (the whole filename when it has
\* no dot), in lower case
ExtensionOf(filename) ==
    LET dots == {i \in 1..Len(filename) : filename[i] = "."}
        last == IF dots = {} THEN 0
                ELSE CHOOSE i \in dots : \A j \in dots : j <= i
    IN  ToLowerCase(SubSeq(filename, last + 1, Len(filename)))

-----------------------------------------------------------------------------
(* Transcripts of one start line, made of a dialect prefix and a body,     *)
(* followed by continuation lines.                                          *)

MaxCont == 1

StartPrefixes ==
    { \* Dialect A
      <<"[", "1", "3", "/", "0", "1", "/", "2", "5", ",", " ", "1", "1", ":", "5", "2", ":", "4", "6", " ", "A", "M", "]", " ", "A", "l", "i", "c", "e", ":", " ">>,
      \* Dialect B
      <<"1", "/", "2", "/", "2", "5", ",", " ", "1", "2", ":", "5", "2", " ", "A", "M", " ", "-", " ", "B", "o", "b", ":", " ">>,
      \* Dialect B without a sender
      <<"1", "/", "1", "3", "/", "2", "6", ",", " ", "1", ":", "0", "5", " ", "P", "M", " ", "-", " ">> }

StartBodies ==
    BodyCores \cup {<<"1", "0", ":", "3", "0", " ", "<", "a", "t", "t", "a", "c", "h", "e", "d", ":", " ", "a", ".", "j", "p", "g", ">">>, <<"<", "a", "t", "t", "a", "c", "h", "e", "d", ":", " ", "p", "h", "o", "t", "o", ".", "j", "p", "g", ">", " ", "i", "m", "a", "g", "e", " ", "o", "m", "i", "t", "t", "e", "d">>}

StartLines == {p \o b : p \in StartPrefixes, b \in StartBodies}

ContLines == {<<"t", "h", "e", "r", "e">>, <<"<", "a", "t", "t", "a", "c", "h", "e", "d", ":", " ", "b", ".", "g", "i", "f", ">">>, <<"i", "m", "a", "g", "e", " ", "o", "m", "i", "t", "t", "e", "d">>, <<"B", "o", "b", " ", "l", "e", "f", "t">>}

\* the loop body run on the line raw
Consume(raw) ==
    /\ lines' = Append(lines, raw)
    /\ LET st == LoopBody(State, raw)
       IN  /\ messages' = st.messages
           /\ currentMessage' = st.currentMessage
           /\ messageId' = st.messageId
    /\ UNCHANGED <<done, call, ret>>
    /\ UNCHANGED <<driverVars, viewerVars>>

ReadStart(raw) ==
    /\ ~done
    /\ lines = <<>>
    /\ Consume(raw)

ReadCont(raw) ==
    /\ ~done
    /\ Len(lines) >= 1
    /\ Len(lines) <= MaxCont
    /\ Consume(raw)

NextBody ==
    \/ \E raw \in StartLines : ReadStart(raw)
    \/ \E raw \in ContLines : ReadCont(raw)
    \/ EndOfInput

SpecBody == Init /\ [][NextBody]_vars

-----------------------------------------------------------------------------
(* Properties of the records (specification SpecBody).                     *)

\* C13: a record has a media payload, with a filename and a mediaType among
\* image, audio, video and document, exactly when its type is media.
C13_MediaIffTypeMedia ==
    \A k \in 1..Len(AllRecords) :
        LET r == AllRecords[k]
        IN  /\ (r.type = "media") <=> (r.media # Null)
            /\ r.type = "media" =>
                   /\ r.media.filename # <<>>
                   /\ r.media.mediaType \in {"image", "audio", "video", "document"}

\* an emitted image record that took a continuation line
C13_Witness ==
    /\ done
    /\ Len(messages) = 1
    /\ messages[1].type = "media"
    /\ messages[1].media.mediaType = "image"
    /\ Len(lines) = 2

\* C14: every record of type system has the sender "System".
C14_SystemSenderSentinel ==
    \A k \in 1..Len(AllRecords) :
        AllRecords[k].type = "system" => AllRecords[k].sender = <<"S", "y", "s", "t", "e", "m">>

\* C15: a start line matching only the sender-less Dialect B pattern gives a
\* record of type system, sender "System", without media, whatever its body holds.
C15_SenderlessIsSystem ==
    \A k \in 1..Len(AllRecords) :
        LET line == Sanitize(lines[NthStart(StartIndices(lines), k)])
            r == AllRecords[k]
        IN  (/\ ~Match(MESSAGE_START_PATTERN_1, line).ok
             /\ ~Match(MESSAGE_START_PATTERN_2, line).ok
             /\ Match(MESSAGE_START_PATTERN_2_SYSTEM, line).ok)
                => (r.type = "system" /\ r.sender = <<"S", "y", "s", "t", "e", "m">> /\ r.media = Null)

\* a sender-less start whose body holds an attachment marker
C15_Witness ==
    /\ done
    /\ Len(messages) = 1
    /\ messages[1].sender = <<"S", "y", "s", "t", "e", "m">>
    /\ HasAttachedMarker(messages[1].content)
    /\ messages[1].type = "system"

\* C16: a continuation line changes the open record's content only: type, media,
\* sender, timestamp and id stay as the start line set them.
C16_ContinuationKeepsClassification ==
    [][(lines' # lines /\ currentMessage # Null /\ ~IsStart(lines'[Len(lines')]))
          => /\ currentMessage'.type = currentMessage.type
             /\ currentMessage'.media = currentMessage.media
             /\ currentMessage'.sender = currentMessage.sender
             /\ currentMessage'.timestamp = currentMessage.timestamp
             /\ currentMessage'.id = currentMessage.id]_vars

\* a text record that took a continuation line holding an attachment marker
C16_Witness ==
    /\ Len(lines) = 2
    /\ currentMessage # Null
    /\ currentMessage.type = "text"
    /\ HasAttachedMarker(lines[2])
    /\ HasAttachedMarker(currentMessage.content)

-----------------------------------------------------------------------------
(* A second call of parseChatFile on the text of the first.                *)

\* the loop over the lines ls, from the state st
RECURSIVE RunLoop(_, _)
RunLoop(st, ls) ==
    IF ls = <<>> THEN st ELSE RunLoop(LoopBody(st, Head(ls)), Tail(ls))

\* a call that takes up the id counter the call before it left
LocalsCarried == [LoopInit EXCEPT !.messageId = messageId]

\* const messages = []; let currentMessage = null; let messageId = 0
Locals == LoopInit

\* the messages a call returns for the lines ls
parseChatFile(ls) == LoopEnd(RunLoop(Locals, ls))

\* the finished transcript is parsed again
Rerun ==
    /\ done
    /\ call = Null
    /\ call' = [fn |-> "parseChatFile", lines |-> lines]
    /\ ret' = parseChatFile(lines)
    /\ UNCHANGED <<lines, messages, currentMessage, messageId, done>>
    /\ UNCHANGED <<driverVars, viewerVars>>

NextRerun ==
    \/ \E raw \in LinePool : ReadLine(raw)
    \/ EndOfInput
    \/ Rerun

SpecRerun == Init /\ [][NextRerun]_vars

-----------------------------------------------------------------------------
(* extractMetadata                                                          *)

\* the time value of an Invalid Date
NaN == [nan |-> TRUE]

\* the day number, counted from 1970-01-01, of the day d of month m of year y
DaysFromCivil(y, m, d) ==
    LET yy == IF m <= 2 THEN y - 1 ELSE y
        era == yy \div 400
        yoe == yy - era * 400
        mp == (m + 9) % 12
        doy == (153 * mp + 2) \div 5 + d - 1
        doe == yoe * 365 + yoe \div 4 - yoe \div 100 + doy
    IN  era * 146097 + doe - 719468

\* the year, month and day of the day number z
CivilFromDays(z) ==
    LET zz == z + 719468
        era == zz \div 146097
        doe == zz - era * 146097
        yoe == (doe - doe \div 1460 + doe \div 36524 - doe \div 146096) \div 365
        doy == doe - (365 * yoe + yoe \div 4 - yoe \div 100)
        mp == (5 * doy + 2) \div 153
        d == doy - (153 * mp + 2) \div 5 + 1
        m == IF mp < 10 THEN mp + 3 ELSE mp - 9
        y == yoe + era * 400
    IN  [year |-> IF m <= 2 THEN y + 1 ELSE y, month |-> m, day |-> d]

AllDigits(s) == \A i \in 1..Len(s) : s[i] \in Digits

\* ts has the shape YYYY-MM-DDTHH:MM:SS
IsIsoShape(ts) ==
    /\ Len(ts) = 19
    /\ AllDigits(SubSeq(ts, 1, 4)) /\ ts[5] = "-"
    /\ AllDigits(SubSeq(ts, 6, 7)) /\ ts[8] = "-"
    /\ AllDigits(SubSeq(ts, 9, 10)) /\ ts[11] = "T"
    /\ AllDigits(SubSeq(ts, 12, 13)) /\ ts[14] = ":"
    /\ AllDigits(SubSeq(ts, 15, 16)) /\ ts[17] = ":"
    /\ AllDigits(SubSeq(ts, 18, 19))

\* the day number and the second of the day that the fields of ts name, or NaN
WallClock(ts) ==
    IF ~IsIsoShape(ts) THEN NaN
    ELSE LET f == IsoFields(ts)
         IN  IF \/ f.month < 1 \/ f.month > 12
                \/ f.day < 1 \/ f.day > 31
                \/ f.minute > 59 \/ f.second > 59
                \/ f.hour > 24
                \/ (f.hour = 24 /\ (f.minute # 0 \/ f.second # 0))
             THEN NaN
             ELSE [day |-> DaysFromCivil(f.year, f.month, 1) + f.day - 1,
                   sec |-> f.hour * 3600 + f.minute * 60 + f.second]

\* new Date(ts) for a string without an offset: local time, tz minutes east of
\* UTC; the time value is day * 86400 + sec, kept as a pair with 0 <= sec < 86400
DateParse(ts, tz) ==
    LET w == WallClock(ts)
    IN  IF w = NaN THEN NaN
        ELSE LET total == w.sec - tz * 60
             IN  [day |-> w.day + (total \div 86400), sec |-> total % 86400]

\* a < b on Dates: false when either is an Invalid Date
DateLess(a, b) ==
    /\ a # NaN
    /\ b # NaN
    /\ (a.day < b.day \/ (a.day = b.day /\ a.sec < b.sec))

\* date.toISOString().split('T')[0] of a valid Date
ToISODate(dv) ==
    LET c == CivilFromDays(dv.day)
    IN  NumToStr(c.year) \o <<"-">> \o PadStart2(NumToStr(c.month))
        \o <<"-">> \o PadStart2(NumToStr(c.day))

\* participants.add(sender) on a Set, kept in insertion order
SetAdd(seq, x) ==
    IF \E i \in 1..Len(seq) : seq[i] = x THEN seq ELSE Append(seq, x)

\* the body of the forEach callback
MetaStep(acc, msg, tz) ==
    LET msgDate == DateParse(msg.timestamp, tz)
    IN  [participants |-> IF msg.type # "system"
                          THEN SetAdd(acc.participants, msg.sender)
                          ELSE acc.participants,
         earliestDate |-> IF acc.earliestDate = Null \/ DateLess(msgDate, acc.earliestDate)
                          THEN msgDate ELSE acc.earliestDate,
         latestDate |-> IF acc.latestDate = Null \/ DateLess(acc.latestDate, msgDate)
                        THEN msgDate ELSE acc.latestDate]

RECURSIVE MetaLoop(_, _, _)
MetaLoop(acc, msgs, tz) ==
    IF msgs = <<>> THEN acc
    ELSE CHOOSE r \in {MetaLoop(a, Tail(msgs), tz) :
                           a \in {MetaStep(acc, Head(msgs), tz)}} : TRUE

\* toISOString() of an Invalid Date throws
RangeError == [error |-> "RangeError"]

\* extractMetadata(messages, chatName) on a host tz minutes east of UTC whose
\* clock shows the UTC date today
extractMetadata(msgs, chatName, tz, today) ==
    CHOOSE r \in
        { IF acc.earliestDate = NaN \/ acc.latestDate = NaN
          THEN RangeError
          ELSE [chatName |-> chatName,
                exportDate |-> today,
                messageCount |-> Len(msgs),
                participants |-> acc.participants,
                dateRange |->
                    [start |-> IF acc.earliestDate # Null
                               THEN ToISODate(acc.earliestDate) ELSE Null,
                     end |-> IF acc.latestDate # Null
                             THEN ToISODate(acc.latestDate) ELSE Null]] :
          acc \in {MetaLoop([participants |-> <<>>, earliestDate |-> Null,
                             latestDate |-> Null], msgs, tz)} } : TRUE

-----------------------------------------------------------------------------
(* Transcripts that are parsed and then summarised.                        *)

MaxMetaLines == 2

MetaPool ==
    { \* shortly before midnight
      <<"[", "1", "3", "/", "0", "1", "/", "2", "5", ",", " ", "1", "1", ":", "5", "2", ":", "4", "6", " ", "P", "M", "]", " ", "A", "l", "i", "c", "e", ":", " ", "H", "e", "l", "l", "o">>,
      \* shortly after midnight
      <<"1", "/", "2", "/", "2", "5", ",", " ", "1", "2", ":", "5", "2", " ", "A", "M", " ", "-", " ", "B", "o", "b", ":", " ", "h", "i">>,
      \* the last second of a year
      <<"[", "3", "1", "/", "1", "2", "/", "2", "4", ",", " ", "1", "1", ":", "5", "9", ":", "5", "9", " ", "P", "M", "]", " ", "B", "o", "b", ":", " ", "<", "a", "t", "t", "a", "c", "h", "e", "d", ":", " ", "p", "i", "c", ".", "j", "p", "g", ">">>,
      \* sender-less
      <<"1", "/", "1", "3", "/", "2", "6", ",", " ", "1", ":", "0", "5", " ", "P", "M", " ", "-", " ", "A", "l", "i", "c", "e", " ", "l", "e", "f", "t">>,
      \* month 13
      <<"[", "1", "3", "/", "1", "3", "/", "2", "5", ",", " ", "1", "1", ":", "5", "2", ":", "4", "6", " ", "A", "M", "]", " ", "A", "l", "i", "c", "e", ":", " ", "H", "e", "l", "l", "o">>,
      \* hour 13 PM
      <<"1", "/", "2", "/", "2", "5", ",", " ", "1", "3", ":", "0", "5", " ", "P", "M", " ", "-", " ", "B", "o", "b", ":", " ", "y", "o">>,
      \* midday
      <<"[", "1", "4", "/", "0", "1", "/", "2", "5", ",", " ", "1", "2", ":", "0", "0", ":", "0", "0", " ", "P", "M", "]", " ", "A", "l", "i", "c", "e", ":", " ", "o", "k">>,
      <<"t", "h", "e", "r", "e">> }

\* minutes east of UTC
TzOffsets == {0 - 300, 0, 330}

ChatNames == {<<"C", "h", "a", "t">>}

Todays == {<<"2", "0", "2", "6", "-", "1", "1", "-", "0", "5">>}

ReadMetaLine(raw) ==
    /\ ~done
    /\ Len(lines) < MaxMetaLines
    /\ Consume(raw)

CallExtractMetadata(chatName, tz, today) ==
    /\ done
    /\ call = Null
    /\ call' = [fn |-> "extractMetadata", messages |-> messages,
                chatName |-> chatName, tz |-> tz, today |-> today]
    /\ ret' = extractMetadata(messages, chatName, tz, today)
    /\ UNCHANGED <<lines, messages, currentMessage, messageId, done>>
    /\ UNCHANGED <<driverVars, viewerVars>>

NextMeta ==
    \/ \E raw \in MetaPool : ReadMetaLine(raw)
    \/ EndOfInput
    \/ \E chatName \in ChatNames, tz \in TzOffsets, today \in Todays :
           CallExtractMetadata(chatName, tz, today)

SpecMeta == Init /\ [][NextMeta]_vars

-----------------------------------------------------------------------------
(* Properties of the summary (specification SpecMeta).                     *)

Summarised == call # Null /\ call.fn = "extractMetadata"

IsSummary(r) == "messageCount" \in DOMAIN r

\* a <= b for two timestamps, as strings of digits and separators
TsLeq(a, b) ==
    \/ a = b
    \/ \E i \in 1..Len(a) :
           /\ i <= Len(b)
           /\ SubSeq(a, 1, i - 1) = SubSeq(b, 1, i - 1)
           /\ a[i] \in Digits /\ b[i] \in Digits
           /\ DigitVal(a[i]) < DigitVal(b[i])

\* C18: the summary counts every record and lists, without duplicates, exactly
\* the senders of the records that are not of type system; for no records it
\* has count 0, no participants and a null start and end.
C18_CountAndParticipants ==
    Summarised =>
        /\ IsSummary(ret)
        /\ ret.messageCount = Len(call.messages)
        /\ \A i, j \in 1..Len(ret.participants) :
               ret.participants[i] = ret.participants[j] => i = j
        /\ {ret.participants[i] : i \in 1..Len(ret.participants)}
               = {call.messages[k].sender :
                      k \in {h \in 1..Len(call.messages) : call.messages[h].type # "system"}}
        /\ call.messages = <<>> =>
               /\ ret.messageCount = 0
               /\ ret.participants = <<>>
               /\ ret.dateRange.start = Null
               /\ ret.dateRange.end = Null

\* C19: for every offset of the host, start and end are the date parts of the
\* smallest and of the largest stored timestamp, system records included.
C19_DateSpanOfStoredTimestamps ==
    (Summarised /\ call.messages # <<>>) =>
        /\ IsSummary(ret)
        /\ \E lo, hi \in 1..Len(call.messages) :
               /\ \A k \in 1..Len(call.messages) :
                      /\ TsLeq(call.messages[lo].timestamp, call.messages[k].timestamp)
                      /\ TsLeq(call.messages[k].timestamp, call.messages[hi].timestamp)
               /\ ret.dateRange.start = SubSeq(call.messages[lo].timestamp, 1, 10)
               /\ ret.dateRange.end = SubSeq(call.messages[hi].timestamp, 1, 10)

\* C20: extractMetadata returns a summary for every message sequence that
\* parseChatFile produces; it does not throw.
C20_NeverThrows ==
    Summarised => IsSummary(ret)

-----------------------------------------------------------------------------
(* The assembler as a two-state machine (specification Spec).              *)

\* 1 for a line of Dialect A, 2 for a line of Dialect B, 0 for any other line
DialectOf(raw) ==
    LET line == Sanitize(raw)
    IN  IF Match(MESSAGE_START_PATTERN_1, line).ok THEN 1
        ELSE IF \/ Match(MESSAGE_START_PATTERN_2, line).ok
                \/ Match(MESSAGE_START_PATTERN_2_SYSTEM, line).ok THEN 2
        ELSE 0

\* the largest index of the non-empty set S
LastOf(S) == CHOOSE i \in S : \A j \in S : j <= i

\* C26: after any prefix of the lines, the records emitted plus the open one
\* number as many as the start lines of the prefix and as the id counter; no
\* message is open exactly when no start line was consumed; at the end of the
\* input the open record is emitted once, so the records returned number as
\* many as the start lines.
C26_AssemblerStateInvariant ==
    LET n == Cardinality(StartIndices(lines))
    IN  /\ messageId = n
        /\ (currentMessage = Null) <=> (n = 0)
        /\ ~done => Len(messages) + (IF currentMessage # Null THEN 1 ELSE 0) = n
        /\ done => Len(messages) = n

\* the end of a transcript of two start lines and a continuation line
C26_Witness ==
    /\ done
    /\ Len(lines) = 3
    /\ Cardinality(StartIndices(lines)) = 2
    /\ Len(messages) = 2
    /\ \E i \in 1..3 : ~IsStart(lines[i]) /\ ~IsBlank(lines[i])

\* C27: while a message of one dialect is open, a line that matches a start
\* pattern of the other dialect is folded into the content of the open message
\* and starts no record.
C27_OtherDialectFolded ==
    [][(/\ lines' # lines
        /\ currentMessage # Null
        /\ StartIndices(lines) # {}
        /\ DialectOf(lines'[Len(lines')]) # 0
        /\ DialectOf(lines'[Len(lines')])
               # DialectOf(lines[LastOf(StartIndices(lines))]))
          => /\ messageId' = messageId
             /\ messages' = messages
             /\ currentMessage' =
                    [currentMessage EXCEPT
                        !.content = @ \o <<"LF">> \o Sanitize(lines'[Len(lines')])]]_vars

-----------------------------------------------------------------------------
(* The range of the timestamp fields (specification SpecMeta).             *)

\* C29: every timestamp of a record names a calendar date-time: month 1..12,
\* day 1..31, hour 0..23, minute 0..59, second 0..59.
C29_TimestampInCalendarRange ==
    \A k \in 1..Len(AllRecords) :
        LET f == IsoFields(AllRecords[k].timestamp)
        IN  /\ f.month \in 1..12
            /\ f.day \in 1..31
            /\ f.hour \in 0..23
            /\ f.minute \in 0..59
            /\ f.second \in 0..59

-----------------------------------------------------------------------------
(* A transcript read side by side with a copy of it whose lines carry       *)
(* whitespace at their ends and invisible characters.                       *)

MaxSanLines == 2

SanPool ==
    { <<"[", "1", "3", "/", "0", "1", "/", "2", "5", ",", " ", "1", "1", ":", "5", "2", ":", "4", "6", " ", "A", "M", "]", " ", "A", "l", "i", "c", "e", ":", " ", "H", "e", "l", "l", "o">>,
      <<"1", "/", "2", "/", "2", "5", ",", " ", "1", "2", ":", "5", "2", "NNBSP", "A", "M", " ", "-", " ", "B", "o", "b", ":", " ", " ", "h", "i">>,
      <<"t", "h", "e", "r", "e">>,
      <<>> }

\* whitespace put before and after a line, and invisible characters put in it
Decorations ==
    { [lead |-> <<>>, trail |-> <<>>, inv |-> <<>>, at |-> "start"],
      [lead |-> <<>>, trail |-> <<>>, inv |-> <<"LRM">>, at |-> "start"],
      [lead |-> <<>>, trail |-> <<>>, inv |-> <<"RLO", "LRE">>, at |-> "middle"],
      [lead |-> <<" ">>, trail |-> <<>>, inv |-> <<"RLM">>, at |-> "start"],
      [lead |-> <<>>, trail |-> <<" ">>, inv |-> <<"PDF">>, at |-> "end"],
      [lead |-> <<"NNBSP">>, trail |-> <<"TAB", "CR">>, inv |-> <<>>, at |-> "start"] }

\* the line raw with the decoration d: the whitespace around it, then the
\* invisible characters before it, in its middle or after it
Decorate(raw, d) ==
    LET padded == d.lead \o raw \o d.trail
        p == IF d.at = "start" THEN 0
             ELSE IF d.at = "middle" THEN Len(padded) \div 2
             ELSE Len(padded)
    IN  SubSeq(padded, 1, p) \o d.inv \o SubSeq(padded, p + 1, Len(padded))

\* the parser reads the decorated line; ret is what parseChatFile returns for
\* the plain lines up to here
ReadDecorated(raw, d) ==
    /\ ~done
    /\ Len(lines) < MaxSanLines
    /\ lines' = Append(lines, Decorate(raw, d))
    /\ LET st == LoopBody(State, Decorate(raw, d))
       IN  /\ messages' = st.messages
           /\ currentMessage' = st.currentMessage
           /\ messageId' = st.messageId
    /\ LET plain == IF call = Null THEN <<raw>> ELSE Append(call.lines, raw)
       IN  /\ call' = [fn |-> "parseChatFile", lines |-> plain]
           /\ ret' = parseChatFile(plain)
    /\ UNCHANGED done
    /\ UNCHANGED <<driverVars, viewerVars>>

NextSan ==
    \/ \E raw \in SanPool, d \in Decorations : ReadDecorated(raw, d)
    \/ EndOfInput

SpecSan == Init /\ [][NextSan]_vars

HasInvisible(s) == \E i \in 1..Len(s) : s[i] \in InvisibleChars

\* C28: the decorated transcript gives the message sequence of the plain one,
\* and no content holds U+200E, U+200F or U+202A..U+202E.
C28_SanitisingInvisible ==
    /\ call # Null => (IF done THEN messages ELSE LoopEnd(State)) = ret
    /\ \A k \in 1..Len(AllRecords) : ~HasInvisible(AllRecords[k].content)

\* a start line and a continuation line, both read with invisible characters
\* in them and differing from their plain forms, after the end of the input
C28_Witness ==
    /\ done
    /\ Len(lines) = 2
    /\ Len(messages) = 1
    /\ HasInvisible(lines[1])
    /\ HasInvisible(lines[2])
    /\ Len(lines[2]) >= 2
    /\ lines[2][2] \in WhiteSpace
    /\ \E p \in 1..Len(messages[1].content) : messages[1].content[p] = "LF"
    /\ ret = messages

-----------------------------------------------------------------------------
(* The viewer pages in the browser.                                         *)

KeyEvents ==
    [ctrlKey : BOOLEAN, metaKey : BOOLEAN, key : {"+", "=", "-", "f", "End"}]

\* the page t, its script not inside a loop without end, takes the value v
Shows(t, v) ==
    /\ pages' = [pages EXCEPT ![t] = v.page]
    /\ localStorage' = v.storage
    /\ UNCHANGED <<lines, messages, currentMessage, messageId, done, call, ret>>
    /\ UNCHANGED driverVars

Viewing(t) == [page |-> pages[t], storage |-> localStorage]

\* chat.html is opened or reloaded in the tab t
OpenPage(t) == Shows(t, [page |-> NewPage, storage |-> localStorage])

DOMContentLoaded(t) ==
    /\ ~pages[t].loaded
    /\ Shows(t, onDOMContentLoaded(Viewing(t)))

\* the button A+
ClickIncrease(t) == Shows(t, increaseFont(Viewing(t)))

\* the button A-
ClickDecrease(t) == Shows(t, decreaseFont(Viewing(t)))

\* the search button
ClickSearch(t) == Shows(t, toggleSearch(Viewing(t)))

\* a key pressed once the listener is registered
KeyDown(t, e) ==
    /\ pages[t].loaded
    /\ Shows(t, onKeyDown(Viewing(t), e))

NextViewer ==
    \E t \in Tabs :
        \/ OpenPage(t)
        \/ DOMContentLoaded(t)
        \/ ClickIncrease(t)
        \/ ClickDecrease(t)
        \/ ClickSearch(t)
        \/ \E e \in KeyEvents : KeyDown(t, e)

SpecViewer == Init /\ [][NextViewer]_vars

\* what is typed or pasted into the search box
QueryPool ==
    { <<>>, <<" ">>, <<"h", "e", "l", "l", "o">>, <<"L">>, <<" ", "l", "o", " ">>, <<"a", "b">>, <<"z", "z">>, <<"a", ".", "i", "o">>, <<".">>,
      <<"\\">>, <<"(">>, <<")">>, <<"(", ")">>, <<"*">>, <<"?">>, <<"o", "*">>, <<"o", "+">>, <<"l", "?">> }

SearchKeyEvents == [key : {"Enter", "Escape", "a"}, shiftKey : BOOLEAN]

\* the value of the search box changes: the input listener, once registered
TypeQuery(t, value) ==
    /\ ~pages[t].stuck
    /\ Shows(t, IF pages[t].loaded THEN onInput(Viewing(t), value)
                ELSE [Viewing(t) EXCEPT !.page.searchInput = value])

\* the buttons of the search box
ClickNext(t) == ~pages[t].stuck /\ Shows(t, searchNext(Viewing(t)))

ClickPrev(t) == ~pages[t].stuck /\ Shows(t, searchPrev(Viewing(t)))

ClickClose(t) == ~pages[t].stuck /\ Shows(t, closeSearch(Viewing(t)))

\* a key pressed in the search box once the listener is registered
SearchKeyDown(t, e) ==
    /\ ~pages[t].stuck
    /\ pages[t].loaded
    /\ Shows(t, onSearchKeyDown(Viewing(t), e))

\* Ctrl+F or Cmd+F anywhere on the page
ShortcutSearch(t, e) ==
    /\ ~pages[t].stuck
    /\ e.key = "f"
    /\ KeyDown(t, e)

NextSearch ==
    \E t \in SearchTabs :
        \/ OpenPage(t)
        \/ ~pages[t].stuck /\ DOMContentLoaded(t)
        \/ \E value \in QueryPool : TypeQuery(t, value)
        \/ ClickNext(t)
        \/ ClickPrev(t)
        \/ ClickClose(t)
        \/ ~pages[t].stuck /\ ClickSearch(t)
        \/ \E e \in SearchKeyEvents : SearchKeyDown(t, e)
        \/ \E e \in KeyEvents : ShortcutSearch(t, e)

SpecSearch == Init /\ [][NextSearch]_vars

\* the cursor of a page points at one of its marks, or at none when there is none
CursorInRange(page) ==
    IF Len(page.searchMatches) = 0 THEN page.currentMatchIndex = -1
    ELSE page.currentMatchIndex >= 0 /\ page.currentMatchIndex < Len(page.searchMatches)

\* C34: on every page whose script is not inside a search that never ends,
\* the cursor is -1 with no match and a position among the matches otherwise;
\* searchNext steps forward and from the last match to the first, searchPrev
\* steps back and from the first match to the last, both leave a page without
\* matches as it is, and closeSearch and a toggleSearch that closes leave no
\* match and the cursor -1.
C34_SearchCursor ==
    \A t \in Tabs :
        ~pages[t].stuck =>
            LET v == Viewing(t)
                n == Len(pages[t].searchMatches)
                at == pages[t].currentMatchIndex
            IN  /\ CursorInRange(pages[t])
                /\ n = 0 => searchNext(v) = v /\ searchPrev(v) = v
                /\ n > 0 => /\ searchNext(v).page.currentMatchIndex
                                   = (IF at = n - 1 THEN 0 ELSE at + 1)
                            /\ searchPrev(v).page.currentMatchIndex
                                   = (IF at = 0 THEN n - 1 ELSE at - 1)
                            /\ searchNext(v).page.searchMatches = pages[t].searchMatches
                            /\ searchPrev(v).page.searchMatches = pages[t].searchMatches
                /\ closeSearch(v).page.searchMatches = <<>>
                /\ closeSearch(v).page.currentMatchIndex = -1
                /\ pages[t].searchActive =>
                       /\ toggleSearch(v).page.searchMatches = <<>>
                       /\ toggleSearch(v).page.currentMatchIndex = -1

\* a page with four matches of a query with a special character, the cursor
\* on the last of them
C34_Witness ==
    \E t \in Tabs :
        /\ ~pages[t].stuck
        /\ Len(pages[t].searchMatches) = 4
        /\ pages[t].currentMatchIndex = 3
        /\ pages[t].searchInfo = <<"4", " ", "/", " ", "4">>
        /\ pages[t].searchInput = <<"l", "?">>

\* C24: the font size of every page is between 12px and 24px.
C24_FontSizeInRange ==
    \A t \in Tabs :
        /\ pages[t].currentFontSize >= minFontSize
        /\ pages[t].currentFontSize <= maxFontSize

-----------------------------------------------------------------------------
(* htmlGenerator.js: the markup of one message and of the page.  The markup *)
(* is kept as its parts: each part holds the text put between the fixed     *)
(* tags of the template.                                                    *)

\* one character of escapeHtml's chain of replace calls
EscapeChar(c) ==
    IF c = "&" THEN <<"&", "a", "m", "p", ";">>
    ELSE IF c = "<" THEN <<"&", "l", "t", ";">>
    ELSE IF c = ">" THEN <<"&", "g", "t", ";">>
    ELSE IF c = "\"" THEN <<"&", "q", "u", "o", "t", ";">>
    ELSE IF c = "'" THEN <<"&", "#", "0", "3", "9", ";">>
    ELSE <<c>>

RECURSIVE escapeHtml(_)
escapeHtml(text) ==
    Once(text, LAMBDA t :
        IF Len(t) = 0 THEN <<>>
        ELSE IF Len(t) = 1 THEN EscapeChar(t[1])
        ELSE escapeHtml(SubSeq(t, 1, Len(t) \div 2))
             \o escapeHtml(SubSeq(t, (Len(t) \div 2) + 1, Len(t))))

\* /(https?:\/\/[^\s]+|www\.[^\s]+)/gi
UrlPattern ==
    Pattern(<<Alt(<<<<"h", "t", "t", "p", "s", ":", "/", "/">>, <<"h", "t", "t", "p", ":", "/", "/">>, <<"w", "w", "w", ".">>>>, {1}),
              Some(WhiteSpace \cup LineTerminators \cup {"NNBSP"}, TRUE, 1, {1})>>,
            FALSE, FALSE, TRUE)

\* the length of the match m of the pattern pat
MatchLen(pat, m) == CountsUpTo(m, Len(pat.items))

\* text.replace(urlPattern, url => anchor) on the escaped text
RECURSIVE LinkUrls(_)
LinkUrls(text) ==
    LET m == Match(UrlPattern, text)
        n == MatchLen(UrlPattern, m)
        url == SubSeq(text, m.at, m.at + n - 1)
        href == IF SubSeq(url, 1, 4) = <<"w", "w", "w", ".">> THEN <<"h", "t", "t", "p", "s", ":", "/", "/">> \o url ELSE url
    IN  IF ~m.ok THEN text
        ELSE SubSeq(text, 1, m.at - 1)
             \o <<"<", "a", " ", "h", "r", "e", "f", "=", "\"">> \o href
             \o <<"\"", " ", "t", "a", "r", "g", "e", "t", "=", "\"", "_", "b", "l", "a", "n", "k", "\"", " ", "r", "e", "l", "=", "\"", "n", "o", "o", "p", "e", "n", "e", "r", " ", "n", "o", "r", "e", "f", "e", "r", "r", "e", "r", "\"", ">">> \o url \o <<"<", "/", "a", ">">>
             \o LinkUrls(SubSeq(text, m.at + n, Len(text)))

linkifyText(text) == IF text = <<>> THEN <<>> ELSE Once(escapeHtml(text), LinkUrls)

\* /<attached:[^>]+>/g
AttachedTagPattern ==
    Pattern(Word(<<"<", "a", "t", "t", "a", "c", "h", "e", "d", ":">>, {}) \o <<Some({">"}, TRUE, 1, {}), Ch(">", {})>>,
            FALSE, FALSE, FALSE)

\* content.replace(/<attached:[^>]+>/g, '')
RECURSIVE RemoveAttachedTags(_)
RemoveAttachedTags(content) ==
    LET m == Match(AttachedTagPattern, content)
        n == MatchLen(AttachedTagPattern, m)
    IN  IF ~m.ok THEN content
        ELSE SubSeq(content, 1, m.at - 1)
             \o RemoveAttachedTags(SubSeq(content, m.at + n, Len(content)))

\* content.replace(/^.+?\.(jpg|...|xlsx) \(file attached\)/gi, ''): the
\* expression is anchored at the start, so it matches at most once
RemoveFileAttached(content) ==
    LET m == Match(MEDIA_ATTACHED_PATTERN_2, content)
        n == MatchLen(MEDIA_ATTACHED_PATTERN_2, m)
    IN  IF ~m.ok THEN content ELSE SubSeq(content, m.at + n, Len(content))

\* the local cleanContent of generateMessageHtml
CleanContent(content) ==
    Once(RemoveAttachedTags(content), LAMBDA untagged : Trim(RemoveFileAttached(untagged)))

\* .replace(/\n/g, '<br>')
RECURSIVE BreakLines(_)
BreakLines(text) ==
    Once(text, LAMBDA t :
        IF Len(t) = 0 THEN <<>>
        ELSE IF Len(t) = 1 THEN (IF t[1] = "LF" THEN <<"<", "b", "r", ">">> ELSE t)
        ELSE BreakLines(SubSeq(t, 1, Len(t) \div 2))
             \o BreakLines(SubSeq(t, (Len(t) \div 2) + 1, Len(t))))

\* date.toLocaleTimeString('en-US', {hour: 'numeric', minute: '2-digit', hour12: true})
formatTime(timestamp) ==
    LET w == WallClock(timestamp)
        h == (w.sec \div 3600) % 24
        mi == (w.sec % 3600) \div 60
    IN  IF w = NaN THEN <<"I", "n", "v", "a", "l", "i", "d", " ", "D", "a", "t", "e">>
        ELSE NumToStr(IF h % 12 = 0 THEN 12 ELSE h % 12) \o <<":">>
             \o PadStart2(NumToStr(mi)) \o (IF h < 12 THEN <<" ", "A", "M">> ELSE <<" ", "P", "M">>)

\* generateMessageHtml with the line that removes the tags written as an
\* assignment to message.content
generateMessageHtmlInPlace(message) ==
    [html |-> Null,
     message |-> [message EXCEPT !.content = CleanContent(@)]]

\* the markup of one message, and the message record as the call leaves it
generateMessageHtml(message) ==
    Once(CleanContent(message.content), LAMBDA cleanContent :
        [html |->
             [messageClass |-> IF message.type = "system"
                               THEN <<"m", "e", "s", "s", "a", "g", "e", " ", "s", "y", "s", "t", "e", "m">> ELSE <<"m", "e", "s", "s", "a", "g", "e">>,
              elements |-> (IF message.type # "system" THEN {"sender", "time"} ELSE {})
                           \cup (IF Trim(message.content) # <<>> /\ cleanContent # <<>>
                                 THEN {"content"} ELSE {}),
              sender |-> IF message.type # "system"
                         THEN escapeHtml(message.sender) ELSE <<>>,
              content |-> IF Trim(message.content) # <<>> /\ cleanContent # <<>>
                          THEN Once(linkifyText(cleanContent), BreakLines) ELSE <<>>,
              media |-> IF message.media # Null /\ message.media.filename # <<>>
                        THEN [src |-> <<"m", "e", "d", "i", "a", "/">> \o message.media.filename,
                              kind |-> message.media.mediaType,
                              label |-> escapeHtml(message.media.filename)]
                        ELSE Null,
              time |-> IF message.type # "system"
                       THEN formatTime(message.timestamp) ELSE <<>>],
         message |-> message])

\* the date as the transcript wrote it: the date part of the timestamp
getDateKeyLocal(timestamp, tz) ==
    IF DateParse(timestamp, tz) = NaN THEN NaN ELSE SubSeq(timestamp, 1, 10)

\* date.toISOString().split('T')[0]; NaN stands for the RangeError thrown
getDateKey(timestamp, tz) ==
    LET date == DateParse(timestamp, tz)
    IN  IF date = NaN THEN NaN ELSE ToISODate(date)

\* a < b for two date keys YYYY-MM-DD
KeyLess(a, b) ==
    \E i \in 1..Len(a) :
        /\ i <= Len(b)
        /\ SubSeq(a, 1, i - 1) = SubSeq(b, 1, i - 1)
        /\ a[i] \in Digits /\ b[i] \in Digits
        /\ DigitVal(a[i]) < DigitVal(b[i])

\* the keys of the set ks from the latest to the earliest
RECURSIVE SortKeysDescending(_)
SortKeysDescending(ks) ==
    IF ks = {} THEN <<>>
    ELSE Once(CHOOSE x \in ks : \A y \in ks : ~KeyLess(x, y),
              LAMBDA k : <<k>> \o SortKeysDescending(ks \ {k}))

\* Object.keys(messagesByDate).sort() for the set ks of keys
RECURSIVE SortKeys(_)
SortKeys(ks) ==
    IF ks = {} THEN <<>>
    ELSE Once(CHOOSE x \in ks : \A y \in ks : ~KeyLess(y, x),
              LAMBDA k : <<k>> \o SortKeys(ks \ {k}))

\* the date key of every message of msgs
RECURSIVE DateKeys(_, _)
DateKeys(msgs, tz) ==
    IF msgs = <<>> THEN <<>>
    ELSE <<getDateKey(Head(msgs).timestamp, tz)>> \o DateKeys(Tail(msgs), tz)

\* generateMessageHtml called on every message of msgs
RECURSIVE RenderAll(_)
RenderAll(msgs) ==
    IF msgs = <<>> THEN <<>>
    ELSE <<generateMessageHtml(Head(msgs))>> \o RenderAll(Tail(msgs))

\* messagesByDate[key], as markup: the messages whose date key is key, in order
RECURSIVE RenderedUnder(_, _, _)
RenderedUnder(key, keys, rendered) ==
    IF keys = <<>> THEN <<>>
    ELSE (IF Head(keys) = key THEN <<Head(rendered).html>> ELSE <<>>)
         \o RenderedUnder(key, Tail(keys), Tail(rendered))

\* one divider for each date key of dateKeys, in that order
RECURSIVE Dividers(_, _, _)
Dividers(dateKeys, keys, rendered) ==
    IF dateKeys = <<>> THEN <<>>
    ELSE <<[date |-> Head(dateKeys),
            messages |-> RenderedUnder(Head(dateKeys), keys, rendered)]>>
         \o Dividers(Tail(dateKeys), keys, rendered)

\* the messages as the calls of generateMessageHtml leave them
RECURSIVE MessagesOf(_)
MessagesOf(rendered) ==
    IF rendered = <<>> THEN <<>>
    ELSE <<Head(rendered).message>> \o MessagesOf(Tail(rendered))

\* generateHtmlFile on a host tz minutes east of UTC: the dividers with the
\* markup of their messages, or the RangeError of getDateKey; and the message
\* records as the call leaves them
generateHtmlFile(msgs, metadata, tz) ==
    IF \E k \in 1..Len(msgs) : DateParse(msgs[k].timestamp, tz) = NaN
    THEN [html |-> RangeError, messages |-> msgs]
    ELSE Once(DateKeys(msgs, tz), LAMBDA keys :
         Once(RenderAll(msgs), LAMBDA rendered :
         Once(SortKeys({keys[k] : k \in 1..Len(keys)}), LAMBDA dateKeys :
             [html |-> [title |-> escapeHtml(metadata.chatName),
                        dateInput |->
                            IF msgs = <<>>
                            THEN [min |-> <<"n", "u", "l", "l">>, max |-> <<"n", "u", "l", "l">>]
                            ELSE [min |-> metadata.dateRange.start,
                                  max |-> metadata.dateRange.end],
                        dividers |-> Dividers(dateKeys, keys, rendered)],
              messages |-> MessagesOf(rendered)])))

-----------------------------------------------------------------------------
(* mediaHandler.js                                                          *)

\* path.extname(file): from the last dot on; empty without a dot and when the
\* only dot is the first character
extname(file) ==
    LET dots == {i \in 1..Len(file) : file[i] = "."}
        last == CHOOSE i \in dots : \A j \in dots : j <= i
    IN  IF dots = {} \/ last = 1 THEN <<>> ELSE SubSeq(file, last, Len(file))

mediaExtensions ==
    { <<".", "j", "p", "g">>, <<".", "j", "p", "e", "g">>, <<".", "p", "n", "g">>, <<".", "g", "i", "f">>, <<".", "w", "e", "b", "p">>,
      <<".", "m", "p", "4">>, <<".", "a", "v", "i">>, <<".", "m", "o", "v">>, <<".", "m", "k", "v">>,
      <<".", "o", "p", "u", "s">>, <<".", "m", "p", "3">>, <<".", "o", "g", "g">>, <<".", "a", "a", "c">>, <<".", "m", "4", "a">>,
      <<".", "p", "d", "f">>, <<".", "d", "o", "c">>, <<".", "d", "o", "c", "x">>, <<".", "x", "l", "s">>, <<".", "x", "l", "s", "x">> }

\* the listing of the chat directory, filtered
getMediaFiles(files) ==
    SelectSeq(files, LAMBDA file :
        /\ file # <<"_", "c", "h", "a", "t", ".", "t", "x", "t">>
        /\ file[1] # "."
        /\ ToLowerCase(extname(file)) \in mediaExtensions)

RECURSIVE validateMediaReferences(_, _)
validateMediaReferences(msgs, mediaFiles) ==
    IF msgs = <<>> THEN <<>>
    ELSE LET msg == Head(msgs)
             mediaSet == {mediaFiles[i] : i \in 1..Len(mediaFiles)}
         IN  (IF /\ msg.media # Null
                 /\ msg.media.filename # <<>>
                 /\ msg.media.filename \notin mediaSet
              THEN <<[messageId |-> msg.id, filename |-> msg.media.filename]>>
              ELSE <<>>)
             \o validateMediaReferences(Tail(msgs), mediaFiles)

-----------------------------------------------------------------------------
(* index.js.  A directory entry is a record: its name, whether it is a       *)
(* directory, the names of the files in it, whether its _chat.txt can be    *)
(* read, and the lines of that file.                                        *)

StartsWith(s, p) == Len(s) >= Len(p) /\ SubSeq(s, 1, Len(p)) = p

\* s.replace(p, '') for a string p: the first occurrence is removed
RemoveFirst(s, p) ==
    LET at == {i \in 1..Len(s) : i + Len(p) - 1 <= Len(s) /\ SubSeq(s, i, i + Len(p) - 1) = p}
        i == CHOOSE x \in at : \A y \in at : x <= y
    IN  IF at = {} THEN s ELSE SubSeq(s, 1, i - 1) \o SubSeq(s, i + Len(p), Len(s))

AlphaNumeric ==
    Digits \cup {"a", "b", "c", "d", "e", "f", "g", "h", "i", "j", "k", "l", "m",
                 "n", "o", "p", "q", "r", "s", "t", "u", "v", "w", "x", "y", "z"}

\* entry.isDirectory() && entry.name.startsWith('WhatsApp Chat')
IsChatDirectory(entry) ==
    entry.isDirectory /\ StartsWith(entry.name, <<"W", "h", "a", "t", "s", "A", "p", "p", " ", "C", "h", "a", "t">>)

findChatDirectories(es) == SelectSeq(es, IsChatDirectory)

\* basename(chatDir).replace('WhatsApp Chat - ', '')
ChatNameOf(dir) == RemoveFirst(dir.name, <<"W", "h", "a", "t", "s", "A", "p", "p", " ", "C", "h", "a", "t", " ", "-", " ">>)

\* chatName.replace(/[^a-z0-9]/gi, '_'), the folder under the output directory
OutputDirOf(chatName) ==
    [i \in 1..Len(chatName) |->
        IF Lower(chatName[i]) \in AlphaNumeric THEN chatName[i] ELSE "_"]

\* the try block with generateHtmlFile called right after extractMetadata
AfterParseHtmlFirst(dir, chatName, msgs, tz, today) ==
    Once(extractMetadata(msgs, chatName, tz, today), LAMBDA metadata :
    Once(getMediaFiles(dir.files), LAMBDA mediaFiles :
    Once(validateMediaReferences(msgs, mediaFiles), LAMBDA missingMedia :
        IF metadata = RangeError
        THEN [result |-> [success |-> FALSE, chatName |-> chatName,
                          error |-> "Invalid time value"],
              steps |-> <<"parse">>, missingMedia |-> Null, copied |-> <<>>]
        ELSE Once(generateHtmlFile(msgs, metadata, tz), LAMBDA page :
             IF page.html = RangeError
             THEN [result |-> [success |-> FALSE, chatName |-> chatName,
                               error |-> "Invalid time value"],
                   steps |-> <<"parse", "metadata">>, missingMedia |-> Null,
                   copied |-> <<>>]
             ELSE [result |-> [success |-> TRUE, chatName |-> chatName,
                               outputDir |-> OutputDirOf(chatName),
                               stats |-> [messages |-> Len(msgs),
                                          media |-> Len(mediaFiles)]],
                   steps |-> <<"parse", "metadata", "chat.html", "media", "validate",
                               "copy", "chat-metadata.json", "messages.json">>,
                   missingMedia |-> missingMedia, copied |-> mediaFiles]))))

\* the try block of processChat once the transcript is parsed: the steps done,
\* in order, until one throws
AfterParse(dir, chatName, msgs, tz, today) ==
    Once(extractMetadata(msgs, chatName, tz, today), LAMBDA metadata :
    Once(getMediaFiles(dir.files), LAMBDA mediaFiles :
    Once(validateMediaReferences(msgs, mediaFiles), LAMBDA missingMedia :
    Once(<<"parse", "metadata", "media", "validate", "copy",
           "chat-metadata.json", "messages.json">>, LAMBDA upToJson :
        IF metadata = RangeError
        THEN [result |-> [success |-> FALSE, chatName |-> chatName,
                          error |-> "Invalid time value"],
              steps |-> <<"parse">>, missingMedia |-> Null, copied |-> <<>>]
        ELSE Once(generateHtmlFile(msgs, metadata, tz), LAMBDA page :
             IF page.html = RangeError
             THEN [result |-> [success |-> FALSE, chatName |-> chatName,
                               error |-> "Invalid time value"],
                   steps |-> upToJson, missingMedia |-> missingMedia,
                   copied |-> mediaFiles]
             ELSE [result |-> [success |-> TRUE, chatName |-> chatName,
                               outputDir |-> OutputDirOf(chatName),
                               stats |-> [messages |-> Len(msgs),
                                          media |-> Len(mediaFiles)]],
                   steps |-> Append(upToJson, "chat.html"),
                   missingMedia |-> missingMedia, copied |-> mediaFiles])))))

\* processChat(chatDir, outputBaseDir): the result it returns and what it did,
\* or the error of mkdir, which is called before the try block
processChat(dir, tz, today) ==
    LET chatName == ChatNameOf(dir)
        failed == [result |-> [success |-> FALSE, chatName |-> chatName,
                               error |-> "ENOENT"],
                   steps |-> <<>>, missingMedia |-> Null, copied |-> <<>>,
                   messages |-> <<>>, locals |-> Null]
        tried == IF ~dir.readable THEN failed
                 ELSE Once(RunLoop(Locals, dir.chatFile), LAMBDA st :
                      Once(LoopEnd(st), LAMBDA msgs :
                      Once(AfterParse(dir, chatName, msgs, tz, today), LAMBDA o :
                          [result |-> o.result, steps |-> o.steps,
                           missingMedia |-> o.missingMedia, copied |-> o.copied,
                           messages |-> msgs, locals |-> st])))
    IN  IF ~dir.mkdir
        THEN [thrown |-> TRUE, error |-> "EACCES"]
        ELSE Once(tried, LAMBDA outcome :
            [thrown |-> FALSE,
             result |-> outcome.result,
             locals |-> outcome.locals,
             output |-> [chatDir |-> dir.name, outputDir |-> OutputDirOf(chatName),
                         steps |-> outcome.steps,
                         missingMedia |-> outcome.missingMedia,
                         copied |-> outcome.copied,
                         messages |-> outcome.messages]])

\* results.push(result) for the successful chats only
CollectSuccessOnly(rs, result) == IF result.success THEN Append(rs, result) ELSE rs

\* results.push(result)
CollectResult(rs, result) == Append(rs, result)

-----------------------------------------------------------------------------
(* A run of main over a base directory.                                     *)

MaxEntries == 2

EntryPool ==
    { [name |-> <<"W", "h", "a", "t", "s", "A", "p", "p", " ", "C", "h", "a", "t", " ", "-", " ", "A", " ", "B">>, isDirectory |-> TRUE,
       files |-> <<<<"_", "c", "h", "a", "t", ".", "t", "x", "t">>, <<"p", "i", "c", ".", "j", "p", "g">>>>,
       chatFile |-> <<<<"[", "1", "3", "/", "0", "1", "/", "2", "5", ",", " ", "1", "1", ":", "5", "2", ":", "4", "6", " ", "A", "M", "]", " ", "A", "l", "i", "c", "e", ":", " ", "<", "a", "t", "t", "a", "c", "h", "e", "d", ":", " ", "p", "i", "c", ".", "j", "p", "g", ">">>>>,
       readable |-> TRUE, mkdir |-> TRUE],
      [name |-> <<"W", "h", "a", "t", "s", "A", "p", "p", " ", "C", "h", "a", "t", " ", "-", " ", "A", "-", "B">>, isDirectory |-> TRUE,
       files |-> <<<<"c", "a", "r", "d", ".", "v", "c", "f">>, <<"_", "c", "h", "a", "t", ".", "t", "x", "t">>>>,
       chatFile |-> <<<<"1", "/", "2", "/", "2", "5", ",", " ", "1", "2", ":", "5", "2", " ", "A", "M", " ", "-", " ", "B", "o", "b", ":", " ", "<", "a", "t", "t", "a", "c", "h", "e", "d", ":", " ", "c", "a", "r", "d", ".", "v", "c", "f", ">">>, <<"t", "h", "e", "r", "e">>>>,
       readable |-> TRUE, mkdir |-> TRUE],
      [name |-> <<"W", "h", "a", "t", "s", "A", "p", "p", " ", "C", "h", "a", "t", " ", "-", " ", "F", "a", "m">>, isDirectory |-> TRUE,
       files |-> <<<<"x", ".", "j", "p", "g">>>>,
       chatFile |-> <<>>, readable |-> FALSE, mkdir |-> TRUE],
      [name |-> <<"W", "h", "a", "t", "s", "A", "p", "p", " ", "C", "h", "a", "t", " ", "-", " ", "G", "o", "n", "e">>, isDirectory |-> TRUE,
       files |-> <<<<"_", "c", "h", "a", "t", ".", "t", "x", "t">>, <<".", "l", "o", "s", "t", ".", "j", "p", "g">>, <<"B", ".", "P", "N", "G">>>>,
       chatFile |-> <<<<"[", "1", "3", "/", "0", "1", "/", "2", "5", ",", " ", "1", "1", ":", "5", "2", ":", "4", "6", " ", "A", "M", "]", " ", "A", "l", "i", "c", "e", ":", " ", "<", "a", "t", "t", "a", "c", "h", "e", "d", ":", " ", "l", "o", "s", "t", ".", "j", "p", "g", ">">>,
                      <<"[", "1", "4", "/", "0", "1", "/", "2", "5", ",", " ", "1", "2", ":", "0", "0", ":", "0", "0", " ", "P", "M", "]", " ", "B", "o", "b", ":", " ", "B", ".", "P", "N", "G", " ", "(", "f", "i", "l", "e", " ", "a", "t", "t", "a", "c", "h", "e", "d", ")">>>>,
       readable |-> TRUE, mkdir |-> TRUE],
      [name |-> <<"W", "h", "a", "t", "s", "A", "p", "p", " ", "C", "h", "a", "t", " ", "-", " ", "B", "a", "d">>, isDirectory |-> TRUE,
       files |-> <<<<"_", "c", "h", "a", "t", ".", "t", "x", "t">>>>,
       chatFile |-> <<<<"1", "/", "2", "/", "2", "5", ",", " ", "1", "2", ":", "5", "2", " ", "A", "M", " ", "-", " ", "B", "o", "b", ":", " ", "h", "i">>, <<"1", "/", "2", "/", "2", "5", ",", " ", "1", "3", ":", "0", "5", " ", "P", "M", " ", "-", " ", "B", "o", "b", ":", " ", "y", "o">>>>,
       readable |-> TRUE, mkdir |-> TRUE],
      [name |-> <<"W", "h", "a", "t", "s", "A", "p", "p", " ", "C", "h", "a", "t", "s">>, isDirectory |-> TRUE,
       files |-> <<<<"_", "c", "h", "a", "t", ".", "t", "x", "t">>>>,
       chatFile |-> <<<<"[", "1", "3", "/", "0", "1", "/", "2", "5", ",", " ", "1", "1", ":", "5", "2", ":", "4", "6", " ", "A", "M", "]", " ", "A", "l", "i", "c", "e", ":", " ", "H", "e", "l", "l", "o">>>>,
       readable |-> TRUE, mkdir |-> TRUE],
      \* the output folder of this one cannot be created
      [name |-> <<"W", "h", "a", "t", "s", "A", "p", "p", " ", "C", "h", "a", "t", " ", "-", " ", "F", "u", "l", "l">>, isDirectory |-> TRUE,
       files |-> <<<<"_", "c", "h", "a", "t", ".", "t", "x", "t">>>>,
       chatFile |-> <<<<"[", "1", "3", "/", "0", "1", "/", "2", "5", ",", " ", "1", "1", ":", "5", "2", ":", "4", "6", " ", "A", "M", "]", " ", "A", "l", "i", "c", "e", ":", " ", "H", "e", "l", "l", "o">>>>,
       readable |-> TRUE, mkdir |-> FALSE],
      [name |-> <<"n", "o", "t", "e", "s">>, isDirectory |-> TRUE,
       files |-> <<>>, chatFile |-> <<>>, readable |-> FALSE, mkdir |-> TRUE],
      [name |-> <<"W", "h", "a", "t", "s", "A", "p", "p", " ", "C", "h", "a", "t", " ", "-", " ", "Z", ".", "z", "i", "p">>, isDirectory |-> FALSE,
       files |-> <<>>, chatFile |-> <<>>, readable |-> FALSE, mkdir |-> TRUE] }

\* the listings readdir can return: entries with different names, in any order
EntryLists ==
    UNION {{es \in [1..n -> EntryPool] :
                \A i, j \in 1..n : es[i].name = es[j].name => i = j} : n \in 0..MaxEntries}

InitMain ==
    /\ lines = <<>>
    /\ messages = LoopInit.messages
    /\ currentMessage = LoopInit.currentMessage
    /\ messageId = LoopInit.messageId
    /\ done = FALSE
    /\ call = Null
    /\ ret = Null
    /\ entries \in EntryLists
    /\ mainPc = "find"
    /\ chatDirs = <<>>
    /\ results = <<>>
    /\ outputs = <<>>
    /\ pages = [t \in Tabs |-> NewPage]
    /\ localStorage = Null

\* const chatDirs = await findChatDirectories(baseDir); main returns when
\* there are none
FindChatDirectories ==
    /\ mainPc = "find"
    /\ chatDirs' = findChatDirectories(entries)
    /\ mainPc' = IF Len(chatDirs') = 0 THEN "end" ELSE "loop"
    /\ UNCHANGED <<entries, results, outputs>>
    /\ UNCHANGED <<lines, messages, currentMessage, messageId, done, call, ret>>
    /\ UNCHANGED viewerVars

\* one turn of the loop of main: processChat on the next chat directory.  The
\* locals of its parseChatFile call are left as the call ends; an error thrown
\* by processChat leaves main through main().catch, which exits the process.
ProcessChat(tz, today) ==
    /\ mainPc = "loop"
    /\ Len(outputs) < Len(chatDirs)
    /\ \E dir \in {chatDirs[Len(outputs) + 1]} :
       \E r \in {processChat(dir, tz, today)} :
           IF r.thrown
           THEN /\ mainPc' = "fatal"
                /\ UNCHANGED <<results, outputs>>
                /\ UNCHANGED <<lines, messages, currentMessage, messageId, done>>
           ELSE /\ results' = CollectResult(results, r.result)
                /\ outputs' = Append(outputs, r.output)
                /\ mainPc' = mainPc
                /\ IF dir.readable
                   THEN /\ lines' = dir.chatFile
                        /\ messages' = r.output.messages
                        /\ currentMessage' = r.locals.currentMessage
                        /\ messageId' = r.locals.messageId
                        /\ done' = TRUE
                   ELSE UNCHANGED <<lines, messages, currentMessage, messageId, done>>
    /\ UNCHANGED <<entries, chatDirs, call, ret>>
    /\ UNCHANGED viewerVars

\* after the loop: the summary is printed and main returns
Summary ==
    /\ mainPc = "loop"
    /\ Len(outputs) = Len(chatDirs)
    /\ mainPc' = "end"
    /\ UNCHANGED <<entries, chatDirs, results, outputs>>
    /\ UNCHANGED <<lines, messages, currentMessage, messageId, done, call, ret>>
    /\ UNCHANGED viewerVars

NextMain ==
    \/ FindChatDirectories
    \/ \E tz \in TzOffsets, today \in Todays : ProcessChat(tz, today)
    \/ Summary

SpecMain == InitMain /\ [][NextMain]_vars

-----------------------------------------------------------------------------
(* Properties of a run of main (specification SpecMain).                   *)

ChatPrefix == <<"W", "h", "a", "t", "s", "A", "p", "p", " ", "C", "h", "a", "t", " ", "-", " ">>

\* C21: a chat whose _chat.txt cannot be read has one result, with success
\* false, its name and an error message; the chats after it are processed all
\* the same; the results are one for each chat directory found, those of the
\* successful and of the failed chats together.
C21_ErrorIsolation ==
    /\ Len(results) = Len(outputs)
    /\ Len(results) <= Len(chatDirs)
    /\ \A k \in 1..Len(results) :
           /\ results[k].chatName = ChatNameOf(chatDirs[k])
           /\ ~chatDirs[k].readable =>
                  /\ ~results[k].success
                  /\ "error" \in DOMAIN results[k]
    /\ \A k \in 1..Len(outputs) :
           /\ outputs[k].chatDir = chatDirs[k].name
           /\ chatDirs[k].readable =>
                  "parse" \in {outputs[k].steps[i] : i \in 1..Len(outputs[k].steps)}
    /\ (mainPc = "end") =>
           /\ Len(results) = Len(chatDirs)
           /\ Cardinality({k \in 1..Len(results) : results[k].success})
                  + Cardinality({k \in 1..Len(results) : ~results[k].success})
                  = Len(chatDirs)

\* a finished run in which the first chat failed to read and the second succeeded
C21_Witness ==
    /\ mainPc = "end"
    /\ Len(results) = 2
    /\ ~chatDirs[1].readable
    /\ ~results[1].success
    /\ results[2].success

\* C22: the validator reports the pair (messageId, filename) for exactly the
\* records whose media filename is not a file of the chat directory.
C22_MissingMediaExact ==
    \A k \in 1..Len(outputs) :
        "validate" \in {outputs[k].steps[i] : i \in 1..Len(outputs[k].steps)} =>
            LET msgs == parseChatFile(chatDirs[k].chatFile)
                present == {chatDirs[k].files[i] : i \in 1..Len(chatDirs[k].files)}
            IN  {outputs[k].missingMedia[i] : i \in 1..Len(outputs[k].missingMedia)}
                    = {[messageId |-> msgs[j].id, filename |-> msgs[j].media.filename] :
                           j \in {h \in 1..Len(msgs) :
                                      /\ msgs[h].media # Null
                                      /\ msgs[h].media.filename \notin present}}

\* C23: two chat directories of a run are written to two different output folders.
C23_DistinctOutputFolders ==
    \A i, j \in 1..Len(outputs) :
        outputs[i].chatDir # outputs[j].chatDir
            => outputs[i].outputDir # outputs[j].outputDir

\* C25: the directories processed are exactly those whose name starts with
\* "WhatsApp Chat - ", and the chat name is the name without that prefix.
C25_PrefixSelectsChats ==
    mainPc # "find" =>
        /\ {chatDirs[k] : k \in 1..Len(chatDirs)}
               = {entries[i] : i \in {h \in 1..Len(entries) :
                                          /\ entries[h].isDirectory
                                          /\ StartsWith(entries[h].name, ChatPrefix)}}
        /\ \A k \in 1..Len(results) :
               results[k].chatName
                   = SubSeq(chatDirs[k].name, Len(ChatPrefix) + 1, Len(chatDirs[k].name))

-----------------------------------------------------------------------------
(* The message records through the rest of processChat: parsed, then handed *)
(* to extractMetadata, validateMediaReferences and generateHtmlFile.       *)

MaxRenderLines == 2

RenderPool ==
    { \* a tag with text around it
      <<"[", "1", "8", "/", "0", "6", "/", "2", "5", ",", " ", "1", "1", ":", "5", "2", ":", "4", "6", " ", "A", "M", "]", " ", "B", "o", "b", ":", " ", "l", "o", "o", "k", " ", "<", "a", "t", "t", "a", "c", "h", "e", "d", ":", " ", "p", "i", "c", ".", "j", "p", "g", ">", " ", "h", "e", "r", "e">>,
      \* a tag alone
      <<"[", "1", "8", "/", "0", "6", "/", "2", "5", ",", " ", "1", "1", ":", "5", "8", ":", "4", "6", " ", "P", "M", "]", " ", "A", "&", "B", ":", " ", "<", "a", "t", "t", "a", "c", "h", "e", "d", ":", " ", "a", "'", "b", ".", "j", "p", "g", ">">>,
      \* the other dialect's marker, with a caption line to follow
      <<"1", "/", "2", "/", "2", "5", ",", " ", "1", "2", ":", "5", "2", " ", "A", "M", " ", "-", " ", "B", "o", "b", ":", " ", "B", ".", "P", "N", "G", " ", "(", "f", "i", "l", "e", " ", "a", "t", "t", "a", "c", "h", "e", "d", ")">>,
      \* a continuation, or nothing when it comes first
      <<"s", "e", "e", " ", "w", "w", "w", ".", "a", ".", "i", "o", " ", "&", " ", "m", "o", "r", "e">>,
      \* hour 13 PM: no date
      <<"1", "/", "2", "/", "2", "5", ",", " ", "1", "3", ":", "0", "5", " ", "P", "M", " ", "-", " ", "B", "o", "b", ":", " ", "y", "o">>,
      \* sender-less
      <<"1", "/", "1", "3", "/", "2", "6", ",", " ", "1", ":", "0", "5", " ", "P", "M", " ", "-", " ", "A", "l", "i", "c", "e", " ", "l", "e", "f", "t">> }

MediaListings == {<<>>, <<<<"p", "i", "c", ".", "j", "p", "g">>, <<"B", ".", "P", "N", "G">>>>}

ReadRenderLine(raw) ==
    /\ ~done
    /\ Len(lines) < MaxRenderLines
    /\ Consume(raw)

\* validateMediaReferences(messages, mediaFiles)
CallValidateMediaReferences(mediaFiles) ==
    /\ done
    /\ call # Null
    /\ call.fn = "extractMetadata"
    /\ ret # RangeError
    /\ call' = [fn |-> "validateMediaReferences", messages |-> messages,
                mediaFiles |-> mediaFiles, metadata |-> ret, tz |-> call.tz]
    /\ ret' = validateMediaReferences(messages, mediaFiles)
    /\ UNCHANGED <<lines, messages, currentMessage, messageId, done>>
    /\ UNCHANGED <<driverVars, viewerVars>>

\* await generateHtmlFile(messages, metadata, outputDir)
CallGenerateHtmlFile ==
    /\ done
    /\ call # Null
    /\ call.fn = "validateMediaReferences"
    /\ \E page \in {generateHtmlFile(messages, call.metadata, call.tz)} :
           /\ call' = [fn |-> "generateHtmlFile", messages |-> messages,
                       metadata |-> call.metadata, tz |-> call.tz]
           /\ ret' = page.html
           /\ messages' = page.messages
    /\ UNCHANGED <<lines, currentMessage, messageId, done>>
    /\ UNCHANGED <<driverVars, viewerVars>>

NextRender ==
    \/ \E raw \in RenderPool : ReadRenderLine(raw)
    \/ EndOfInput
    \/ \E chatName \in ChatNames, tz \in TzOffsets, today \in Todays :
           CallExtractMetadata(chatName, tz, today)
    \/ \E mediaFiles \in MediaListings : CallValidateMediaReferences(mediaFiles)
    \/ CallGenerateHtmlFile

SpecRender == Init /\ [][NextRender]_vars

\* the content of a media record still names its file in one of the two markups
KeepsMarkup(msg) ==
    \/ Includes(msg.content, <<"<", "a", "t", "t", "a", "c", "h", "e", "d", ":", " ">> \o msg.media.filename \o <<">">>)
    \/ Includes(msg.content, msg.media.filename \o <<" ", "(", "f", "i", "l", "e", " ", "a", "t", "t", "a", "c", "h", "e", "d", ")">>)

\* C30: once the records are created, extractMetadata, validateMediaReferences
\* and generateHtmlFile leave every field of every message record as it was;
\* after the page is generated the content of a media record still has its
\* attachment markup.
C30_RecordsNotMutated ==
    [][done =>
          /\ messages' = messages
          /\ (call' # Null /\ call'.fn = "generateHtmlFile") =>
                 \A k \in 1..Len(messages') :
                     messages'[k].media # Null => KeepsMarkup(messages'[k])]_vars

\* the page of a one-message transcript is generated: the markup shows the
\* text without the tag, the record still has the tag
C30_Witness ==
    /\ call # Null
    /\ call.fn = "generateHtmlFile"
    /\ ret # RangeError
    /\ Len(messages) = 1
    /\ messages[1].media # Null
    /\ Includes(messages[1].content, <<"<", "a", "t", "t", "a", "c", "h", "e", "d", ":", " ", "p", "i", "c", ".", "j", "p", "g", ">">>)
    /\ ret.dividers[1].messages[1].content = <<"l", "o", "o", "k", " ", " ", "h", "e", "r", "e">>

C36_FailureConfined ==
    /\ \A k \in 1..Len(results) :
           (~chatDirs[k].mkdir \/ ~chatDirs[k].readable) => ~results[k].success
    /\ mainPc \notin {"find", "loop"} => Len(results) = Len(chatDirs)

\* the steps of processChat, in the order of the code
PipelineSteps ==
    <<"parse", "metadata", "media", "validate", "copy",
      "chat-metadata.json", "messages.json", "chat.html">>

\* C37: the steps done for a chat are an initial part of parse, metadata, media
\* discovery, validation, copy, metadata JSON, messages JSON, HTML; the result
\* is a success exactly when all of them are done; a chat whose transcript
\* cannot be read has no step done and no media copied.
C37_PipelineOrder ==
    /\ Len(results) = Len(outputs)
    /\ \A k \in 1..Len(outputs) :
           /\ Len(outputs[k].steps) <= Len(PipelineSteps)
           /\ outputs[k].steps = SubSeq(PipelineSteps, 1, Len(outputs[k].steps))
           /\ results[k].success <=> outputs[k].steps = PipelineSteps
           /\ ~chatDirs[k].readable =>
                  /\ outputs[k].steps = <<>>
                  /\ outputs[k].copied = <<>>
           /\ Len(outputs[k].steps) < 5 => outputs[k].copied = <<>>

\* a chat that failed while its page was generated, its media copied and its
\* JSON written, and a chat that went through
C37_Witness ==
    \E j, k \in 1..Len(outputs) :
        /\ outputs[j].steps = SubSeq(PipelineSteps, 1, 7)
        /\ ~results[j].success
        /\ results[k].success
        /\ outputs[k].copied # <<>>

-----------------------------------------------------------------------------
(* Properties of the generated page (specification SpecRender).            *)

Generated == call # Null /\ call.fn = "generateHtmlFile" /\ ret # RangeError

\* the records of msgs whose date key is key, in the order of msgs
RECURSIVE WithKey(_, _, _)
WithKey(msgs, key, tz) ==
    IF msgs = <<>> THEN <<>>
    ELSE (IF getDateKey(Head(msgs).timestamp, tz) = key THEN <<Head(msgs)>> ELSE <<>>)
         \o WithKey(Tail(msgs), key, tz)

\* C32: the dividers of the page are in ascending order of their keys, one for
\* each date key of the messages; under a divider stand the messages with its
\* key, in parse order; every message is rendered once.
C32_ViewerGrouping ==
    Generated =>
        \E divs \in {ret.dividers} :
            /\ \A d \in 1..(Len(divs) - 1) : KeyLess(divs[d].date, divs[d + 1].date)
            /\ {divs[d].date : d \in 1..Len(divs)}
                   = {getDateKey(messages[k].timestamp, call.tz) : k \in 1..Len(messages)}
            /\ \A d \in 1..Len(divs) :
                   \E under \in {WithKey(messages, divs[d].date, call.tz)} :
                       /\ Len(divs[d].messages) = Len(under)
                       /\ \A i \in 1..Len(under) :
                              divs[d].messages[i] = generateMessageHtml(under[i]).html
            /\ Cardinality({p \in (1..Len(divs)) \X (1..Len(messages)) :
                                p[2] <= Len(divs[p[1]].messages)}) = Len(messages)

\* a page of two dividers in the order opposite to that of the transcript
C32_Witness ==
    /\ Generated
    /\ Len(messages) = 2
    /\ Len(ret.dividers) = 2
    /\ KeyLess(getDateKey(messages[2].timestamp, call.tz),
               getDateKey(messages[1].timestamp, call.tz))

\* a page with two different messages under one divider
C32_WitnessSameDay ==
    /\ Generated
    /\ Len(ret.dividers) = 1
    /\ Len(ret.dividers[1].messages) = 2
    /\ ret.dividers[1].messages[1] # ret.dividers[1].messages[2]

\* C33: on the page of a transcript with messages, the date of every divider
\* lies between the min and the max of the date input, which are the start and
\* the end of metadata.dateRange, and both of these dates have a divider.
C33_DatePickerBounds ==
    (Generated /\ Len(messages) > 0) =>
        /\ ret.dateInput.min = call.metadata.dateRange.start
        /\ ret.dateInput.max = call.metadata.dateRange.end
        /\ \A d \in 1..Len(ret.dividers) :
               /\ ~KeyLess(ret.dividers[d].date, ret.dateInput.min)
               /\ ~KeyLess(ret.dateInput.max, ret.dividers[d].date)
        /\ \E d \in 1..Len(ret.dividers) : ret.dividers[d].date = ret.dateInput.min
        /\ \E d \in 1..Len(ret.dividers) : ret.dividers[d].date = ret.dateInput.max

\* a page generated on a host away from UTC, whose first message was sent on
\* another day of the host's calendar than the day of its date key
C33_Witness ==
    /\ Generated
    /\ Len(messages) = 2
    /\ call.tz # 0
    /\ ret.dateInput.min # ret.dateInput.max
    /\ \E k \in 1..2 : SubSeq(messages[k].timestamp, 1, 10) # ret.dateInput.min
                       /\ SubSeq(messages[k].timestamp, 1, 10) # ret.dateInput.max

Entities ==
    {<<"&", "a", "m", "p", ";">>, <<"&", "l", "t", ";">>, <<"&", "g", "t", ";">>, <<"&", "q", "u", "o", "t", ";">>, <<"&", "#", "0", "3", "9", ";">>}

StartsAt(s, p, w) == p + Len(w) - 1 <= Len(s) /\ SubSeq(s, p, p + Len(w) - 1) = w

\* s is text as escapeHtml leaves it
Escaped(s) ==
    \A p \in 1..Len(s) :
        /\ s[p] \notin {"<", ">", "\"", "'"}
        /\ s[p] = "&" => \E e \in Entities : StartsAt(s, p, e)

\* s is escaped text with the tags linkifyText and the line breaks add
ContentEscaped(s) ==
    \A p \in 1..Len(s) :
        /\ s[p] # "'"
        /\ s[p] = "&" => \E e \in Entities : StartsAt(s, p, e)
        /\ s[p] = "<" => \E t \in {<<"<", "b", "r", ">">>, <<"<", "a", " ", "h", "r", "e", "f", "=">>, <<"<", "/", "a", ">">>} : StartsAt(s, p, t)

\* C35: the title, and the sender, the content and the media filename of every
\* message, stand on the page as escapeHtml leaves them, in element text and
\* in attribute values.
C35_EverythingEscaped ==
    Generated =>
        /\ Escaped(ret.title)
        /\ \A d \in 1..Len(ret.dividers) :
               \A m \in 1..Len(ret.dividers[d].messages) :
                   \E h \in {ret.dividers[d].messages[m]} :
                       /\ Escaped(h.sender)
                       /\ ContentEscaped(h.content)
                       /\ h.media # Null =>
                              /\ Escaped(h.media.label)
                              /\ Escaped(h.media.src)
                              /\ h.media.src = <<"m", "e", "d", "i", "a", "/">> \o h.media.label


-----------------------------------------------------------------------------
(* The parser of src/parser/src/parser.js, which knows the bracketed       *)
(* dialect only.  Its functions carry the names of the source after the    *)
(* prefix parser_, the two-dialect parser having functions of the same     *)
(* names.                                                                   *)

\* /^\[(\d{2}\/\d{2}\/\d{2}), (\d{1,2}:\d{2}:\d{2} [AP]M)\] ([^:]+): (.*)$/
MESSAGE_START_PATTERN ==
    Pattern(<<Ch("[", {}), Rep(Digits, 2, 2, {1}), Ch("/", {1}),
              Rep(Digits, 2, 2, {1}), Ch("/", {1}), Rep(Digits, 2, 2, {1}),
              Ch(",", {}), Ch(" ", {})>>
            \o <<Rep(Digits, 1, 2, {2}), Ch(":", {2}), Rep(Digits, 2, 2, {2}),
                 Ch(":", {2}), Rep(Digits, 2, 2, {2}), Ch(" ", {2}),
                 OneOf({"A", "P"}, {2}), Ch("M", {2})>>
            \o <<Ch("]", {}), Ch(" ", {}), Some({":"}, TRUE, 1, {3}),
                 Ch(":", {}), Ch(" ", {}), Some(LineTerminators, TRUE, 0, {4})>>,
            TRUE, TRUE, FALSE)

\* parseDateTime reading the date as month, day, year
parser_parseDateTimeMonthFirst(dateStr, timeStr) ==
    LET parts == SplitOn(dateStr, {"/"})
        tp == SplitOn(timeStr, {" "})
        strs == SplitOn(tp[1], {":"})
        timeParts == [i \in 1..Len(strs) |-> ToNumber(strs[i])]
    IN  <<"2", "0">> \o parts[3] \o <<"-">> \o PadStart2(parts[1]) \o <<"-">>
        \o PadStart2(parts[2]) \o <<"T">>
        \o PadStart2(NumToStr(To24Hour(timeParts[1], tp[2]))) \o <<":">>
        \o PadStart2(NumToStr(timeParts[2])) \o <<":">> \o PadStart2(NumToStr(timeParts[3]))

\* const [day, month, year] = dateStr.split('/'); let [time, period] =
\* timeStr.split(' '); let [hours, minutes, seconds] = time.split(':').map(Number)
parser_parseDateTime(dateStr, timeStr) ==
    LET parts == SplitOn(dateStr, {"/"})
        day == parts[1]
        month == parts[2]
        year == parts[3]
        fullYear == <<"2", "0">> \o year
        tp == SplitOn(timeStr, {" "})
        time == tp[1]
        period == tp[2]
        strs == SplitOn(time, {":"})
        timeParts == [i \in 1..Len(strs) |-> ToNumber(strs[i])]
        hours == To24Hour(timeParts[1], period)
        minutes == timeParts[2]
        seconds == timeParts[3]
    IN  fullYear \o <<"-">> \o PadStart2(month) \o <<"-">> \o PadStart2(day)
        \o <<"T">> \o PadStart2(NumToStr(hours)) \o <<":">>
        \o PadStart2(NumToStr(minutes)) \o <<":">> \o PadStart2(NumToStr(seconds))

\* analyzeMessage: the attached tag, the omission placeholder, the system
\* indicators, text
parser_analyzeMessage(content) ==
    LET attachedMatch == Match(MEDIA_ATTACHED_PATTERN, content)
    IN  IF attachedMatch.ok
        THEN LET filename == Group(MEDIA_ATTACHED_PATTERN, attachedMatch, content, 1)
             IN  [type |-> "media",
                  media |-> [filename |-> filename,
                             mediaType |-> MediaTypeOf(LastExtension(filename))]]
        ELSE IF Match(MEDIA_OMITTED_PATTERN, content).ok
        THEN [type |-> "media_omitted", media |-> Null]
        ELSE IF isSystemMessage(content)
        THEN [type |-> "system", media |-> Null]
        ELSE [type |-> "text", media |-> Null]

\* the loop body of parseChatFile after the blank-line check
parser_HandleLine(st, line) ==
    Once(Match(MESSAGE_START_PATTERN, line), LAMBDA match :
        IF match.ok
        THEN LET dateStr == Group(MESSAGE_START_PATTERN, match, line, 1)
                 timeStr == Group(MESSAGE_START_PATTERN, match, line, 2)
                 sender == Group(MESSAGE_START_PATTERN, match, line, 3)
                 messageContent == Group(MESSAGE_START_PATTERN, match, line, 4)
             IN  Once(parser_analyzeMessage(messageContent), LAMBDA analysis :
                 [messages |-> Flush(st.messages, st.currentMessage),
                  currentMessage |->
                      [id |-> MakeId(st.messageId + 1),
                       timestamp |-> parser_parseDateTime(dateStr, timeStr),
                       sender |-> Trim(sender), content |-> Trim(messageContent),
                       type |-> analysis.type, media |-> analysis.media],
                  messageId |-> st.messageId + 1])
        ELSE [st EXCEPT !.currentMessage = Continue(st.currentMessage, line)])

\* one iteration of `for (let line of lines)`
parser_LoopBody(st, raw) ==
    Once(Sanitize(raw), LAMBDA line :
        IF line = <<>> THEN st ELSE parser_HandleLine(st, line))

RECURSIVE parser_RunLoop(_, _)
parser_RunLoop(st, ls) ==
    IF ls = <<>> THEN st
    ELSE Once(parser_LoopBody(st, Head(ls)), LAMBDA next : parser_RunLoop(next, Tail(ls)))

\* the messages parseChatFile of parser.js returns for the lines ls
parser_parseChatFile(ls) == LoopEnd(parser_RunLoop(LoopInit, ls))

MaxBothLines == 3

\* the lines of the transcripts given to both parsers
BothPool ==
    { <<"[", "1", "3", "/", "0", "1", "/", "2", "5", ",", " ", "1", "1", ":", "5", "2", ":", "4", "6", " ", "A", "M", "]", " ", "A", "l", "i", "c", "e", ":", " ", "H", "e", "l", "l", "o">>,
      <<"[", "0", "1", "/", "0", "2", "/", "2", "5", ",", " ", "1", "2", ":", "5", "3", ":", "0", "0", " ", "P", "M", "]", " ", "B", "o", "b", " ", ":", " ", "<", "a", "t", "t", "a", "c", "h", "e", "d", ":", " ", "p", "i", "c", ".", "j", "p", "g", ">">>,
      <<"a", "n", "d", " ", "m", "o", "r", "e", " ", "l", "e", "f", "t">>,
      \* the second field above 12
      <<"[", "0", "2", "/", "1", "3", "/", "2", "5", ",", " ", "1", "1", ":", "5", "2", ":", "4", "6", " ", "A", "M", "]", " ", "A", "l", "i", "c", "e", ":", " ", "s", "w", "a", "p">>,
      \* day and month of one digit
      <<"[", "1", "/", "2", "/", "2", "5", ",", " ", "1", "1", ":", "5", "2", ":", "4", "6", " ", "A", "M", "]", " ", "A", "l", "i", "c", "e", ":", " ", "s", "h", "o", "r", "t">>,
      \* the inline attachment phrase
      <<"[", "1", "3", "/", "0", "1", "/", "2", "5", ",", " ", "1", "2", ":", "0", "0", ":", "0", "0", " ", "A", "M", "]", " ", "B", "o", "b", ":", " ", "a", ".", "p", "d", "f", " ", "(", "f", "i", "l", "e", " ", "a", "t", "t", "a", "c", "h", "e", "d", ")">>,
      \* the other dialect
      <<"1", "/", "2", "/", "2", "5", ",", " ", "1", "2", ":", "5", "2", " ", "A", "M", " ", "-", " ", "B", "o", "b", ":", " ", "y", "o">>,
      <<"[", "1", "4", "/", "0", "1", "/", "2", "5", ",", " ", "1", ":", "0", "2", ":", "0", "3", " ", "P", "M", "]", " ", "C", "a", "r", "o", "l", ":", " ", "C", "a", "r", "o", "l", " ", "l", "e", "f", "t">>,
      <<"LRM">> \o <<"[", "1", "3", "/", "0", "1", "/", "2", "5", ",", " ", "9", ":", "0", "5", ":", "0", "0", " ", "P", "M", "]", " ", "A", "l", "i", "c", "e", ":", " ", "i", "m", "a", "g", "e", " ", "o", "m", "i", "t", "t", "e", "d", " ">> }

ReadBothLine(raw) ==
    /\ ~done
    /\ Len(lines) < MaxBothLines
    /\ Consume(raw)

\* parseChatFile of parser.js on the transcript the two-dialect parser has read
CallSingleDialect ==
    /\ done
    /\ call = Null
    /\ call' = [fn |-> "parser.parseChatFile", lines |-> lines]
    /\ ret' = parser_parseChatFile(lines)
    /\ UNCHANGED <<lines, messages, currentMessage, messageId, done>>
    /\ UNCHANGED <<driverVars, viewerVars>>

NextBoth ==
    \/ \E raw \in BothPool : ReadBothLine(raw)
    \/ EndOfInput
    \/ CallSingleDialect

SpecBoth == Init /\ [][NextBoth]_vars

\* a line of the bracketed dialect with day and month of two digits, a date
\* that both readings take day first, and a body that does not begin with the
\* inline attachment phrase; or a line of neither dialect
CommonLine(line) ==
    /\ ~Match(MESSAGE_START_PATTERN_2, line).ok
    /\ ~Match(MESSAGE_START_PATTERN_2_SYSTEM, line).ok
    /\ Match(MESSAGE_START_PATTERN_1, line).ok =>
           LET c == Classify(line)
               parts == SplitOn(c.dateStr, {"/"})
           IN  /\ Len(parts[1]) = 2
               /\ Len(parts[2]) = 2
               /\ ToNumber(parts[1]) > 12 \/ ToNumber(parts[2]) <= 12
               /\ ~Match(MEDIA_ATTACHED_PATTERN_2, c.messageContent).ok

CommonDialect(ls) ==
    \A k \in 1..Len(ls) : Sanitize(ls[k]) # <<>> => CommonLine(Sanitize(ls[k]))

\* C38: on a transcript whose start lines are all of the bracketed dialect
\* with two-digit day and month and a day-first date, without a line of the
\* other dialect and without a body that begins with the inline attachment
\* phrase, parser.js returns the messages the two-dialect parser returns.
C38_ParsersAgree ==
    (call # Null /\ call.fn = "parser.parseChatFile" /\ CommonDialect(lines))
        => ret = messages

\* both parsers have read a transcript of the common dialect with two start
\* lines and a continuation line
C38_Witness ==
    /\ call # Null
    /\ call.fn = "parser.parseChatFile"
    /\ CommonDialect(lines)
    /\ Len(lines) = 3
    /\ Len(ret) = 2
    /\ Len(messages) = 2
    /\ \E k \in 1..2 : \E p \in 1..Len(ret[k].content) : ret[k].content[p] = "LF"
    /\ \E k \in 1..2 : ret[k].type = "media"

\* the parsers differ on a transcript outside the common dialect
C38_WitnessDiffer ==
    /\ call # Null
    /\ call.fn = "parser.parseChatFile"
    /\ ~CommonDialect(lines)
    /\ ret # messages
=============================================================================
